---- MODULE Spec2Model ----
(***************************************************************************)
(* State-machine model of the contract DeFiBuilderGameFHE                  *)
(* (src/frontend/web/src/App.tsx, lines 647-927): roles, pause flag,       *)
(* cooldowns, batch lifecycle, encrypted ledger, solvency flag and the     *)
(* decryption request / callback protocol (specification Spec), and of     *)
(* the protocol list kept by the React component App of the same file      *)
(* (lines 80-172, specification SpecWeb).                                  *)
(*                                                                         *)
(* Ciphertext handles (euint32 / ebool) are opaque terms.  The FHE library *)
(* derives the handle of a result from the operation and the handles of    *)
(* its operands, so a handle is modelled as the term that produced it:     *)
(*   << >>                uninitialised handle (bytes32 zero)              *)
(*   <<"in", v>>          an externally supplied encrypted input           *)
(*   <<"triv", v>>        FHE.asEuint32(v)                                 *)
(*   <<"trivb", v>>       FHE.asEbool(v), v in {0, 1}                      *)
(*   <<"add", a, b>>      a.add(b)                                         *)
(*   <<"ge", a, b>>       a.ge(b)                                          *)
(* Decrypt gives the plaintext behind a handle (what the decryption        *)
(* service would reveal); the contract itself never reads it.              *)
(***************************************************************************)
EXTENDS Integers, Sequences, FiniteSets

VARIABLES
    owner,                       \* address public owner
    isProvider,                  \* mapping(address => bool)
    lastSubmissionTime,          \* mapping(address => uint256)
    lastDecryptionRequestTime,   \* mapping(address => uint256)
    cooldownSeconds,             \* uint256
    paused,                      \* bool
    currentBatchId,              \* uint256
    batchOpen,                   \* bool
    decryptionContexts,          \* mapping(uint256 => DecryptionContext)
    encryptedCollateralAmounts,  \* mapping(uint256 => mapping(address => euint32))
    encryptedDebtAmounts,        \* mapping(uint256 => mapping(address => euint32))
    totalEncryptedCollateral,    \* mapping(uint256 => euint32)
    totalEncryptedDebt,          \* mapping(uint256 => euint32)
    isProtocolSolvent,           \* mapping(uint256 => ebool)
    events,                      \* the event log, in emission order
    now,                         \* block.timestamp
    counterRequest,              \* decryption channel: next request id
    requestedHandles,            \* decryption channel: handles of each request
    storedDocs,                  \* frontend data store: ids with a "protocol_<id>" value
    storedKeys,                  \* frontend data store: bytes under "protocol_keys"
    session                      \* frontend: each client's submitProtocol run

cvars == <<owner, isProvider, lastSubmissionTime, lastDecryptionRequestTime,
           cooldownSeconds, paused, currentBatchId, batchOpen,
           decryptionContexts, encryptedCollateralAmounts, encryptedDebtAmounts,
           totalEncryptedCollateral, totalEncryptedDebt, isProtocolSolvent,
           events, counterRequest, requestedHandles>>

\* The frontend (React component App) and the key-value store it talks to
web == <<storedDocs, storedKeys, session>>

vars == <<cvars, now, web>>

----------------------------------------------------------------------------
(* Bounds of the model *)

MaxBatches == 2        \* openBatch is explored up to this batch id
MaxRequests == 2       \* decryption requests issued
MaxDepth == 4          \* successful calls explored after the constructor
AdminCost == 2         \* depth charged to a role or cooldown call
PauseCost == 1         \* depth charged to a pause or unpause call
MaxSubmissions == 2    \* accepted submitCollateral / submitDebt calls
MaxRuns == 2           \* submitProtocol runs started by each frontend client
StartTime == 60        \* block.timestamp of the constructor
EuintBits == 7         \* width of euint32, scaled down
UintMax == 255         \* type(uint256).max, scaled down

DefaultCooldown == 60  \* cooldownSeconds set by the constructor

EuintMod == 2 ^ EuintBits

Addrs == {"A1", "A2"}
Deployer == "A1"
ThisAddress == "DeFiBuilderGameFHE"
Times == {StartTime, StartTime + 30, StartTime + 60, StartTime + 61}
\* Plaintexts of the encrypted inputs; 50 and Complement add up to the width of
\* euint32, so two accepted submissions can wrap a total to exactly 0.
Complement == EuintMod - 50
Values == {50, Complement, 100}
CooldownChoices == {0, DefaultCooldown, DefaultCooldown + 30, UintMax}
BatchIds == 0 .. (MaxBatches + 1)
RequestIds == 0 .. MaxRequests

OK == "ok"

----------------------------------------------------------------------------
(* FHE library and decryption channel, as used by the contract *)

Uninit == << >>
isInitialized(h) == h # Uninit
\* Mutation of asEuint32: the result is the uninitialised handle.
asEuint32_uninit(v) == Uninit
asEuint32(v) == <<"triv", v>>
\* Mutation of asEbool: every boolean is encoded as true.
asEbool_true(b) == <<"trivb", IF b THEN 1 ELSE 1>>
asEbool(b) == <<"trivb", IF b THEN 1 ELSE 0>>
\* The library replaces an uninitialised operand by the trivial encryption of 0.
OrZero(h) == IF isInitialized(h) THEN h ELSE asEuint32(0)
FHEadd(a, b) == <<"add", OrZero(a), OrZero(b)>>
FHEge(a, b) == <<"ge", OrZero(a), OrZero(b)>>
toBytes32(h) == h

\* Mutation of Decrypt: sums are unbounded integers.
RECURSIVE Decrypt_unbounded(_)
Decrypt_unbounded(h) ==
    IF h = Uninit THEN 0
    ELSE IF h[1] \in {"in", "triv", "trivb"} THEN h[2]
    ELSE IF h[1] = "add" THEN Decrypt_unbounded(h[2]) + Decrypt_unbounded(h[3])
    ELSE IF Decrypt_unbounded(h[2]) >= Decrypt_unbounded(h[3]) THEN 1 ELSE 0

\* The plaintext behind a handle: euint32 arithmetic wraps at the type's width.
RECURSIVE Decrypt(_)
Decrypt(h) ==
    IF h = Uninit THEN 0
    ELSE IF h[1] \in {"in", "triv", "trivb"} THEN h[2]
    ELSE IF h[1] = "add" THEN (Decrypt(h[2]) + Decrypt(h[3])) % EuintMod
    ELSE IF Decrypt(h[2]) >= Decrypt(h[3]) THEN 1 ELSE 0

\* Encrypted inputs a caller can pass: an uninitialised handle or a value.
Inputs == {Uninit} \cup {<<"in", v>> : v \in Values}

\* cleartexts: byte strings of length 0, 1 and 2
Payloads == {<< >>, <<0>>, <<1>>, <<1, 0>>}

\* A decryption proof: the service's signature over (handles, cleartexts).
KMSSign(handles, cleartexts) == <<"sig", handles, cleartexts>>
BadProof == <<"bad">>

\* FHE.checkSignatures: the signature must cover the handles saved for the
\* request by FHE.requestDecryption and the cleartexts presented.
checkSignatures(requestId, cleartexts, proof) ==
    /\ requestId \in DOMAIN requestedHandles
    /\ requestedHandles[requestId] # << >>
    /\ proof = KMSSign(requestedHandles[requestId], cleartexts)

----------------------------------------------------------------------------
(* Internal functions *)

\* Mutation of hashCiphertexts: a list of uninitialised handles hashes to the
\* empty fingerprint.
hashCiphertexts_emptyIsZero(cts) ==
    IF cts = <<Uninit>> THEN << >> ELSE <<"keccak256", cts, ThisAddress>>

hashCiphertexts(cts) == <<"keccak256", cts, ThisAddress>>

\* Mutation of isValidBatch: batch 0 is accepted.
isValidBatch_zero(batchId) == batchId <= currentBatchId

isValidBatch(batchId) == batchId > 0 /\ batchId <= currentBatchId

initIfNeeded(val) == IF ~isInitialized(val) THEN "NotInitialized" ELSE OK

\* The first failing check of a guard chain, OK when all pass.
RECURSIVE FirstError(_)
FirstError(errs) ==
    IF errs = << >> THEN OK
    ELSE IF Head(errs) # OK THEN Head(errs)
    ELSE FirstError(Tail(errs))

(* Modifiers *)

\* Mutation of onlyOwner: the deployer keeps the owner's rights for ever.
onlyOwner_deployer(sender) == IF sender # Deployer THEN "NotOwner" ELSE OK

onlyOwner(sender) == IF sender # owner THEN "NotOwner" ELSE OK

onlyProvider(sender) == IF ~isProvider[sender] THEN "NotProvider" ELSE OK

\* Mutation of whenNotPaused: the pause flag is not consulted.
whenNotPaused_off == OK

whenNotPaused == IF paused THEN "PausedState" ELSE OK

\* cooldownMapping[user] + cooldownSeconds is checked uint256 arithmetic: an
\* overflow reverts with Panic(0x11) before the comparison is made.
\* Mutation of respectCooldown: the window is the constructor's default, not the
\* value set by the owner.
respectCooldown_default(user, cooldownMapping) ==
    IF cooldownMapping[user] + DefaultCooldown > UintMax THEN "Panic"
    ELSE IF now < cooldownMapping[user] + DefaultCooldown THEN "CooldownActive"
    ELSE OK

\* Mutation of respectCooldown: an address without a record is exempt.
respectCooldown_firstFree(user, cooldownMapping) ==
    IF cooldownMapping[user] = 0 THEN OK
    ELSE IF cooldownMapping[user] + cooldownSeconds > UintMax THEN "Panic"
    ELSE IF now < cooldownMapping[user] + cooldownSeconds THEN "CooldownActive"
    ELSE OK

respectCooldown(user, cooldownMapping) ==
    IF cooldownMapping[user] + cooldownSeconds > UintMax THEN "Panic"
    ELSE IF now < cooldownMapping[user] + cooldownSeconds THEN "CooldownActive"
    ELSE OK

----------------------------------------------------------------------------
(* Event log and call outcomes *)

\* Mutation of Emit: the new event replaces the log.
Emit_overwrite(e) == <<e>>

Emit(e) == Append(events, e)

AdminEvents == {"OwnershipTransferred", "ProviderAdded", "ProviderRemoved",
                "CooldownSecondsSet", "Paused", "Unpaused"}
SubmitEvents == {"CollateralSubmitted", "DebtSubmitted"}

CountEvents(names) == Cardinality({i \in DOMAIN events : events[i][1] \in names})

PauseEvents == {"Paused", "Unpaused"}

\* Exploration limits: a successful call is explored only within them.  Every
\* successful call that changes storage emits an event, so the depth of a state
\* is read off the log (closeBatch emits two events, the constructor one).
\* Role and cooldown calls are charged AdminCost, pause and unpause PauseCost,
\* every other call 1.  An effective removeProvider is not charged: it undoes
\* the constructor's grant or a charged addProvider, so there are finitely many.
Depth ==
    CountEvents(AdminEvents \ (PauseEvents \cup {"ProviderRemoved"})) * AdminCost
    + CountEvents(PauseEvents) * PauseCost
    + CountEvents({"BatchOpened", "BatchClosed", "DecryptionRequested",
                   "DecryptionCompleted"} \cup SubmitEvents)
    + (CountEvents({"SolvencyCalculated"}) - CountEvents({"BatchClosed"}))
    - AdminCost
Room == Depth + 1 <= MaxDepth
PauseRoom == Depth + PauseCost <= MaxDepth
AdminRoom == Depth + AdminCost <= MaxDepth
SubmitRoom == CountEvents(SubmitEvents) < MaxSubmissions

\* A reverted call: every storage write and event of the call is undone.
Reverted(err) == err # OK /\ UNCHANGED vars

----------------------------------------------------------------------------
(* Frontend: the component App and the data store behind getData / setData *)

Clients == {"c1", "c2"}

\* JSON.stringify(keys) as UTF-8 bytes, and the value of a key never written.
Stringify(keys) == <<"json", keys>>
NoBytes == << >>

\* submitProtocol: keysBytes.length > 0 ? JSON.parse(toUtf8String(keysBytes)) : []
ParseKeys(keysBytes) == IF Len(keysBytes) > 0 THEN keysBytes[2] ELSE << >>

\* `${Date.now()}-${Math.random()...}`: the n-th identifier generated by client c
NewProtocolId(c, n) == <<c, n>>

IdleSession ==
    [pc |-> "idle", started |-> 0, protocolId |-> << >>, keys |-> << >>,
     status |-> "none", created |-> {}, protocols |-> << >>]

\* The page before any protocol was created.
WebInit ==
    /\ storedDocs = {}
    /\ storedKeys = NoBytes
    /\ session = [c \in Clients |-> IdleSession]

----------------------------------------------------------------------------
(* Constructor *)

DefaultContext == [batchId |-> 0, stateHash |-> << >>, processed |-> FALSE]

Init ==
    /\ owner = Deployer
    /\ isProvider = [a \in Addrs |-> a = Deployer]
    /\ lastSubmissionTime = [a \in Addrs |-> 0]
    /\ lastDecryptionRequestTime = [a \in Addrs |-> 0]
    /\ cooldownSeconds = DefaultCooldown
    /\ paused = FALSE
    /\ currentBatchId = 0
    /\ batchOpen = FALSE
    /\ decryptionContexts = [r \in RequestIds |-> DefaultContext]
    /\ encryptedCollateralAmounts = [b \in BatchIds |-> [a \in Addrs |-> Uninit]]
    /\ encryptedDebtAmounts = [b \in BatchIds |-> [a \in Addrs |-> Uninit]]
    /\ totalEncryptedCollateral = [b \in BatchIds |-> Uninit]
    /\ totalEncryptedDebt = [b \in BatchIds |-> Uninit]
    /\ isProtocolSolvent = [b \in BatchIds |-> Uninit]
    /\ events = << <<"ProviderAdded", Deployer>> >>
    /\ now = StartTime
    /\ counterRequest = 0
    /\ requestedHandles = [r \in RequestIds |-> << >>]
    /\ WebInit

----------------------------------------------------------------------------
(* Owner operations *)

transferOwnership(sender, newOwner) ==
    LET err == onlyOwner(sender) IN
    IF err = OK
    THEN /\ AdminRoom
         /\ owner' = newOwner
         /\ events' = Emit(<<"OwnershipTransferred", owner, newOwner>>)
         /\ UNCHANGED <<now, web>>
         /\ UNCHANGED <<isProvider, lastSubmissionTime, lastDecryptionRequestTime,
                        cooldownSeconds, paused, currentBatchId, batchOpen,
                        decryptionContexts, encryptedCollateralAmounts,
                        encryptedDebtAmounts, totalEncryptedCollateral,
                        totalEncryptedDebt, isProtocolSolvent, counterRequest,
                        requestedHandles>>
    ELSE Reverted(err)

addProvider(sender, provider) ==
    LET err == onlyOwner(sender) IN
    IF err = OK
    THEN /\ IF ~isProvider[provider]
            THEN /\ AdminRoom
                 /\ isProvider' = [isProvider EXCEPT ![provider] = TRUE]
                 /\ events' = Emit(<<"ProviderAdded", provider>>)
            ELSE UNCHANGED <<isProvider, events>>
         /\ UNCHANGED <<now, web>>
         /\ UNCHANGED <<owner, lastSubmissionTime, lastDecryptionRequestTime,
                        cooldownSeconds, paused, currentBatchId, batchOpen,
                        decryptionContexts, encryptedCollateralAmounts,
                        encryptedDebtAmounts, totalEncryptedCollateral,
                        totalEncryptedDebt, isProtocolSolvent, counterRequest,
                        requestedHandles>>
    ELSE Reverted(err)

\* Mutation of mayRemove: an address that is not a provider is removed too.
mayRemove_any(provider) == provider # owner

\* removeProvider: the condition under which it writes and emits
mayRemove(provider) == isProvider[provider] /\ provider # owner

removeProvider(sender, provider) ==
    LET err == onlyOwner(sender) IN
    IF err = OK
    THEN /\ IF mayRemove(provider)
            THEN /\ isProvider' = [isProvider EXCEPT ![provider] = FALSE]
                 /\ events' = Emit(<<"ProviderRemoved", provider>>)
            ELSE UNCHANGED <<isProvider, events>>
         /\ UNCHANGED <<now, web>>
         /\ UNCHANGED <<owner, lastSubmissionTime, lastDecryptionRequestTime,
                        cooldownSeconds, paused, currentBatchId, batchOpen,
                        decryptionContexts, encryptedCollateralAmounts,
                        encryptedDebtAmounts, totalEncryptedCollateral,
                        totalEncryptedDebt, isProtocolSolvent, counterRequest,
                        requestedHandles>>
    ELSE Reverted(err)

setCooldownSeconds(sender, newCooldownSeconds) ==
    LET err == onlyOwner(sender) IN
    IF err = OK
    THEN /\ AdminRoom
         /\ cooldownSeconds' = newCooldownSeconds
         /\ events' = Emit(<<"CooldownSecondsSet", cooldownSeconds, newCooldownSeconds>>)
         /\ UNCHANGED <<now, web>>
         /\ UNCHANGED <<owner, isProvider, lastSubmissionTime,
                        lastDecryptionRequestTime, paused, currentBatchId, batchOpen,
                        decryptionContexts, encryptedCollateralAmounts,
                        encryptedDebtAmounts, totalEncryptedCollateral,
                        totalEncryptedDebt, isProtocolSolvent, counterRequest,
                        requestedHandles>>
    ELSE Reverted(err)

\* Mutation of pauseErr: pause is refused to non-owners only.
pauseErr_ownerOnly(sender) == FirstError(<<onlyOwner(sender)>>)

pauseErr(sender) == FirstError(<<onlyOwner(sender), whenNotPaused>>)

pause(sender) ==
    LET err == pauseErr(sender) IN
    IF err = OK
    THEN /\ PauseRoom
         /\ paused' = TRUE
         /\ events' = Emit(<<"Paused", sender>>)
         /\ UNCHANGED <<now, web>>
         /\ UNCHANGED <<owner, isProvider, lastSubmissionTime,
                        lastDecryptionRequestTime, cooldownSeconds, currentBatchId,
                        batchOpen, decryptionContexts, encryptedCollateralAmounts,
                        encryptedDebtAmounts, totalEncryptedCollateral,
                        totalEncryptedDebt, isProtocolSolvent, counterRequest,
                        requestedHandles>>
    ELSE Reverted(err)

unpause(sender) ==
    LET err == onlyOwner(sender) IN
    IF err = OK
    THEN /\ PauseRoom
         /\ paused' = FALSE
         /\ events' = Emit(<<"Unpaused", sender>>)
         /\ UNCHANGED <<now, web>>
         /\ UNCHANGED <<owner, isProvider, lastSubmissionTime,
                        lastDecryptionRequestTime, cooldownSeconds, currentBatchId,
                        batchOpen, decryptionContexts, encryptedCollateralAmounts,
                        encryptedDebtAmounts, totalEncryptedCollateral,
                        totalEncryptedDebt, isProtocolSolvent, counterRequest,
                        requestedHandles>>
    ELSE Reverted(err)

----------------------------------------------------------------------------
(* Solvency computation shared by closeBatch and calculateSolvency *)

\* _calculateSolvency: the two _initIfNeeded checks
calculateSolvencyCheck(batchId) ==
    FirstError(<<initIfNeeded(totalEncryptedCollateral[batchId]),
                 initIfNeeded(totalEncryptedDebt[batchId])>>)

\* Mutation of internalIsSolvent: the flag is not recomputed.
internalIsSolvent_stale(batchId) == isProtocolSolvent[batchId]

\* Mutation of internalIsSolvent: the operands of ge are swapped.
internalIsSolvent_swapped(batchId) ==
    FHEge(totalEncryptedDebt[batchId], totalEncryptedCollateral[batchId])

\* _calculateSolvency: internalIsSolvent
internalIsSolvent(batchId) ==
    FHEge(totalEncryptedCollateral[batchId], totalEncryptedDebt[batchId])

\* Mutation of SolvencyCalculated: the event carries the flag identifier that
\* was stored before the computation.
SolvencyCalculated_oldFlag(batchId) ==
    <<"SolvencyCalculated", batchId, toBytes32(isProtocolSolvent[batchId])>>

\* _calculateSolvency: the event it emits
SolvencyCalculated(batchId) ==
    <<"SolvencyCalculated", batchId, toBytes32(internalIsSolvent(batchId))>>

----------------------------------------------------------------------------
(* Batch lifecycle *)

\* Mutation of openBatchErr: the batchOpen check is missing.
openBatchErr_noOpenCheck(sender) ==
    FirstError(<<onlyOwner(sender), whenNotPaused>>)

openBatchErr(sender) ==
    FirstError(<<onlyOwner(sender), whenNotPaused,
                 IF batchOpen THEN "InvalidBatchOperation" ELSE OK>>)

\* Mutation of nextBatchId: an identifier is skipped.
nextBatchId_skip == currentBatchId + 2

\* currentBatchId++
nextBatchId == currentBatchId + 1

openBatch(sender) ==
    LET err == openBatchErr(sender)
        id == nextBatchId
    IN
    IF err = OK
    THEN /\ Room /\ currentBatchId < MaxBatches
         /\ currentBatchId' = id
         /\ batchOpen' = TRUE
         /\ totalEncryptedCollateral' = [totalEncryptedCollateral EXCEPT ![id] = asEuint32(0)]
         /\ totalEncryptedDebt' = [totalEncryptedDebt EXCEPT ![id] = asEuint32(0)]
         /\ isProtocolSolvent' = [isProtocolSolvent EXCEPT ![id] = asEbool(FALSE)]
         /\ events' = Emit(<<"BatchOpened", id>>)
         /\ UNCHANGED <<now, web>>
         /\ UNCHANGED <<owner, isProvider, lastSubmissionTime,
                        lastDecryptionRequestTime, cooldownSeconds, paused,
                        decryptionContexts, encryptedCollateralAmounts,
                        encryptedDebtAmounts, counterRequest, requestedHandles>>
    ELSE Reverted(err)

closeBatchErr(sender) ==
    FirstError(<<onlyOwner(sender), whenNotPaused,
                 IF ~batchOpen THEN "InvalidBatchOperation" ELSE OK,
                 calculateSolvencyCheck(currentBatchId)>>)

closeBatch(sender) ==
    LET err == closeBatchErr(sender) IN
    IF err = OK
    THEN /\ Room
         /\ batchOpen' = FALSE
         /\ isProtocolSolvent' = [isProtocolSolvent EXCEPT
                                     ![currentBatchId] = internalIsSolvent(currentBatchId)]
         /\ events' = Append(Emit(SolvencyCalculated(currentBatchId)),
                             <<"BatchClosed", currentBatchId>>)
         /\ UNCHANGED <<now, web>>
         /\ UNCHANGED <<owner, isProvider, lastSubmissionTime,
                        lastDecryptionRequestTime, cooldownSeconds, paused,
                        currentBatchId, decryptionContexts,
                        encryptedCollateralAmounts, encryptedDebtAmounts,
                        totalEncryptedCollateral, totalEncryptedDebt,
                        counterRequest, requestedHandles>>
    ELSE Reverted(err)

----------------------------------------------------------------------------
(* Provider operations *)

\* The checks of submitCollateral and submitDebt, in the order they run.
submitCheck(sender, batchId, encryptedAmount) ==
    FirstError(<<onlyProvider(sender), whenNotPaused,
                 respectCooldown(sender, lastSubmissionTime),
                 IF ~isValidBatch(batchId) THEN "BatchClosedOrNonExistent" ELSE OK,
                 initIfNeeded(encryptedAmount)>>)

\* Mutation of addToTotal: the submission overwrites the running total.
addToTotal_overwrite(total, batchId, encryptedAmount) ==
    [total EXCEPT ![batchId] = encryptedAmount]

\* total[batchId] = total[batchId].add(encryptedAmount)
addToTotal(total, batchId, encryptedAmount) ==
    [total EXCEPT ![batchId] = FHEadd(total[batchId], encryptedAmount)]

\* Mutation of recordTime: one record for all addresses.
recordTime_global(cooldownMapping, sender) ==
    [a \in Addrs |-> now]

\* cooldownMapping[msg.sender] = block.timestamp
recordTime(cooldownMapping, sender) ==
    [cooldownMapping EXCEPT ![sender] = now]

\* Mutation of storeAmount: the participant's entry accumulates.
storeAmount_accumulate(amounts, batchId, sender, encryptedAmount) ==
    [amounts EXCEPT ![batchId][sender] = FHEadd(amounts[batchId][sender], encryptedAmount)]

\* amounts[batchId][msg.sender] = encryptedAmount
storeAmount(amounts, batchId, sender, encryptedAmount) ==
    [amounts EXCEPT ![batchId][sender] = encryptedAmount]

submitCollateral(sender, batchId, encryptedAmount) ==
    LET err == submitCheck(sender, batchId, encryptedAmount) IN
    IF err = OK
    THEN /\ Room /\ SubmitRoom
         /\ encryptedCollateralAmounts' =
                storeAmount(encryptedCollateralAmounts, batchId, sender, encryptedAmount)
         /\ totalEncryptedCollateral' =
                addToTotal(totalEncryptedCollateral, batchId, encryptedAmount)
         /\ lastSubmissionTime' = recordTime(lastSubmissionTime, sender)
         /\ events' = Emit(<<"CollateralSubmitted", sender, batchId, toBytes32(encryptedAmount)>>)
         /\ UNCHANGED <<now, web>>
         /\ UNCHANGED <<owner, isProvider, lastDecryptionRequestTime, cooldownSeconds,
                        paused, currentBatchId, batchOpen, decryptionContexts,
                        encryptedDebtAmounts, totalEncryptedDebt, isProtocolSolvent,
                        counterRequest, requestedHandles>>
    ELSE Reverted(err)

submitDebt(sender, batchId, encryptedAmount) ==
    LET err == submitCheck(sender, batchId, encryptedAmount) IN
    IF err = OK
    THEN /\ Room /\ SubmitRoom
         /\ encryptedDebtAmounts' =
                storeAmount(encryptedDebtAmounts, batchId, sender, encryptedAmount)
         /\ totalEncryptedDebt' =
                addToTotal(totalEncryptedDebt, batchId, encryptedAmount)
         /\ lastSubmissionTime' = recordTime(lastSubmissionTime, sender)
         /\ events' = Emit(<<"DebtSubmitted", sender, batchId, toBytes32(encryptedAmount)>>)
         /\ UNCHANGED <<now, web>>
         /\ UNCHANGED <<owner, isProvider, lastDecryptionRequestTime, cooldownSeconds,
                        paused, currentBatchId, batchOpen, decryptionContexts,
                        encryptedCollateralAmounts, totalEncryptedCollateral,
                        isProtocolSolvent, counterRequest, requestedHandles>>
    ELSE Reverted(err)

\* Mutation of calculateSolvencyErr: the whenNotPaused modifier is missing.
calculateSolvencyErr_noPause(sender, batchId) ==
    FirstError(<<onlyProvider(sender),
                 respectCooldown(sender, lastSubmissionTime),
                 IF ~isValidBatch(batchId) THEN "BatchClosedOrNonExistent" ELSE OK,
                 calculateSolvencyCheck(batchId)>>)

calculateSolvencyErr(sender, batchId) ==
    FirstError(<<onlyProvider(sender), whenNotPaused,
                 respectCooldown(sender, lastSubmissionTime),
                 IF ~isValidBatch(batchId) THEN "BatchClosedOrNonExistent" ELSE OK,
                 calculateSolvencyCheck(batchId)>>)

calculateSolvency(sender, batchId) ==
    LET err == calculateSolvencyErr(sender, batchId) IN
    IF err = OK
    THEN /\ Room
         /\ isProtocolSolvent' = [isProtocolSolvent EXCEPT
                                     ![batchId] = internalIsSolvent(batchId)]
         /\ events' = Emit(SolvencyCalculated(batchId))
         /\ UNCHANGED <<now, web>>
         /\ UNCHANGED <<owner, isProvider, lastSubmissionTime,
                        lastDecryptionRequestTime, cooldownSeconds, paused,
                        currentBatchId, batchOpen, decryptionContexts,
                        encryptedCollateralAmounts, encryptedDebtAmounts,
                        totalEncryptedCollateral, totalEncryptedDebt,
                        counterRequest, requestedHandles>>
    ELSE Reverted(err)

----------------------------------------------------------------------------
(* Decryption protocol *)

\* The ciphertext list of a batch, as built by requestSolvencyDecryption and
\* rebuilt by myCallback.
ctsOf(batchId) == <<toBytes32(isProtocolSolvent[batchId])>>

requestSolvencyDecryptionErr(sender, batchId) ==
    FirstError(<<onlyProvider(sender), whenNotPaused,
                 respectCooldown(sender, lastDecryptionRequestTime),
                 IF ~isValidBatch(batchId) THEN "BatchClosedOrNonExistent" ELSE OK,
                 initIfNeeded(isProtocolSolvent[batchId])>>)

\* Mutation of requestDecryptionId: the channel hands out the previous
\* identifier again.
requestDecryptionId_reused ==
    IF counterRequest > 0 THEN counterRequest - 1 ELSE counterRequest

\* FHE.requestDecryption returns the channel's request counter, then advances it.
requestDecryptionId == counterRequest

requestSolvencyDecryption(sender, batchId) ==
    LET err == requestSolvencyDecryptionErr(sender, batchId)
        cts == ctsOf(batchId)
        stateHash == hashCiphertexts(cts)
        requestId == requestDecryptionId
    IN
    IF err = OK
    THEN /\ Room /\ counterRequest < MaxRequests
         /\ requestedHandles' = [requestedHandles EXCEPT ![requestId] = cts]
         /\ counterRequest' = counterRequest + 1
         /\ decryptionContexts' =
                [decryptionContexts EXCEPT
                    ![requestId] = [batchId |-> batchId, stateHash |-> stateHash,
                                    processed |-> FALSE]]
         /\ lastDecryptionRequestTime' =
                recordTime(lastDecryptionRequestTime, sender)
         /\ events' = Emit(<<"DecryptionRequested", requestId, batchId, stateHash>>)
         /\ UNCHANGED <<now, web>>
         /\ UNCHANGED <<owner, isProvider, lastSubmissionTime, cooldownSeconds, paused,
                        currentBatchId, batchOpen, encryptedCollateralAmounts,
                        encryptedDebtAmounts, totalEncryptedCollateral,
                        totalEncryptedDebt, isProtocolSolvent>>
    ELSE Reverted(err)

\* Mutation of myCallbackErr: the replay guard (5a) is missing.
myCallbackErr_noReplayGuard(requestId, cleartexts, proof) ==
    LET ctx == decryptionContexts[requestId]
        currentHash == hashCiphertexts(ctsOf(ctx.batchId))
    IN
    FirstError(<<IF currentHash # ctx.stateHash THEN "StateMismatch" ELSE OK,
                 IF ~checkSignatures(requestId, cleartexts, proof)
                    THEN "InvalidProof" ELSE OK,
                 IF Len(cleartexts) # 1 THEN "InvalidProof" ELSE OK>>)

\* Mutation of myCallbackErr: the state verification (5b) is missing.
myCallbackErr_noStateCheck(requestId, cleartexts, proof) ==
    LET ctx == decryptionContexts[requestId] IN
    FirstError(<<IF ctx.processed THEN "ReplayAttempt" ELSE OK,
                 IF ~checkSignatures(requestId, cleartexts, proof)
                    THEN "InvalidProof" ELSE OK,
                 IF Len(cleartexts) # 1 THEN "InvalidProof" ELSE OK>>)

\* Mutation of myCallbackErr: the state verification runs before the replay
\* guard.
myCallbackErr_stateFirst(requestId, cleartexts, proof) ==
    LET ctx == decryptionContexts[requestId]
        currentHash == hashCiphertexts(ctsOf(ctx.batchId))
    IN
    FirstError(<<IF currentHash # ctx.stateHash THEN "StateMismatch" ELSE OK,
                 IF ctx.processed THEN "ReplayAttempt" ELSE OK,
                 IF ~checkSignatures(requestId, cleartexts, proof)
                    THEN "InvalidProof" ELSE OK,
                 IF Len(cleartexts) # 1 THEN "InvalidProof" ELSE OK>>)

\* Mutation of myCallbackErr: the callback is refused while paused.
myCallbackErr_whenNotPaused(requestId, cleartexts, proof) ==
    LET ctx == decryptionContexts[requestId]
        currentHash == hashCiphertexts(ctsOf(ctx.batchId))
    IN
    FirstError(<<whenNotPaused,
                 IF ctx.processed THEN "ReplayAttempt" ELSE OK,
                 IF currentHash # ctx.stateHash THEN "StateMismatch" ELSE OK,
                 IF ~checkSignatures(requestId, cleartexts, proof)
                    THEN "InvalidProof" ELSE OK,
                 IF Len(cleartexts) # 1 THEN "InvalidProof" ELSE OK>>)

\* The checks of myCallback, in the order they run.
myCallbackErr(requestId, cleartexts, proof) ==
    LET ctx == decryptionContexts[requestId]
        currentHash == hashCiphertexts(ctsOf(ctx.batchId))
    IN
    FirstError(<<IF ctx.processed THEN "ReplayAttempt" ELSE OK,
                 IF currentHash # ctx.stateHash THEN "StateMismatch" ELSE OK,
                 IF ~checkSignatures(requestId, cleartexts, proof)
                    THEN "InvalidProof" ELSE OK,
                 IF Len(cleartexts) # 1 THEN "InvalidProof" ELSE OK>>)

myCallback(requestId, cleartexts, proof) ==
    LET err == myCallbackErr(requestId, cleartexts, proof)
        ctx == decryptionContexts[requestId]
    IN
    IF err = OK
    THEN /\ Room
         /\ decryptionContexts' = [decryptionContexts EXCEPT ![requestId].processed = TRUE]
         /\ events' = Emit(<<"DecryptionCompleted", requestId, ctx.batchId,
                              cleartexts[1] # 0>>)
         /\ UNCHANGED <<now, web>>
         /\ UNCHANGED <<owner, isProvider, lastSubmissionTime,
                        lastDecryptionRequestTime, cooldownSeconds, paused,
                        currentBatchId, batchOpen, encryptedCollateralAmounts,
                        encryptedDebtAmounts, totalEncryptedCollateral,
                        totalEncryptedDebt, isProtocolSolvent, counterRequest,
                        requestedHandles>>
    ELSE Reverted(err)

\* Proofs offered to the callback: no signature, the service's signature for
\* the handles of the request, or its signature for the batch's current flag.
ProofKinds == {"bad", "request", "current"}
ProofOf(kind, requestId, cleartexts) ==
    IF kind = "bad" THEN BadProof
    ELSE IF kind = "request" THEN KMSSign(requestedHandles[requestId], cleartexts)
    ELSE KMSSign(ctsOf(decryptionContexts[requestId].batchId), cleartexts)

----------------------------------------------------------------------------
(* Time and the next-state relation *)

\* block.timestamp moves on between calls; it is observed at the sample times.
Tick ==
    /\ \E t \in Times : t > now /\ now' = t
    /\ UNCHANGED <<cvars, web>>

Next ==
    \/ \E s \in Addrs, a \in Addrs : transferOwnership(s, a)
    \/ \E s \in Addrs, a \in Addrs : addProvider(s, a)
    \/ \E s \in Addrs, a \in Addrs : removeProvider(s, a)
    \/ \E s \in Addrs, c \in CooldownChoices : setCooldownSeconds(s, c)
    \/ \E s \in Addrs : pause(s)
    \/ \E s \in Addrs : unpause(s)
    \/ \E s \in Addrs : openBatch(s)
    \/ \E s \in Addrs : closeBatch(s)
    \/ \E s \in Addrs, b \in BatchIds, e \in Inputs : submitCollateral(s, b, e)
    \/ \E s \in Addrs, b \in BatchIds, e \in Inputs : submitDebt(s, b, e)
    \/ \E s \in Addrs, b \in BatchIds : calculateSolvency(s, b)
    \/ \E s \in Addrs, b \in BatchIds : requestSolvencyDecryption(s, b)
    \/ \E r \in RequestIds, c \in Payloads, k \in ProofKinds :
          myCallback(r, c, ProofOf(k, r, c))
    \/ Tick

Spec == Init /\ [][Next]_vars

----------------------------------------------------------------------------
(* Frontend: submitProtocol and loadProtocols.  Each await of the handler is *)
(* a step; between two steps of one client the other client may run.        *)

\* The list loadProtocols builds: the indexed keys that have a document.
RECURSIVE LoadedList(_)
LoadedList(keys) ==
    IF keys = << >> THEN << >>
    ELSE IF Head(keys) \in storedDocs
         THEN <<Head(keys)>> \o LoadedList(Tail(keys))
         ELSE LoadedList(Tail(keys))

\* submitProtocol up to its first write: the connection check, the signer
\* contract and the new identifier.
submitProtocol(c, isConnected, hasSigner) ==
    /\ session[c].pc = "idle"
    /\ session[c].started < MaxRuns
    /\ IF ~isConnected THEN UNCHANGED session
       ELSE IF ~hasSigner
            THEN session' = [session EXCEPT ![c].status = "error"]
            ELSE session' = [session EXCEPT
                    ![c].pc = "setDoc",
                    ![c].status = "pending",
                    ![c].started = @ + 1,
                    ![c].protocolId = NewProtocolId(c, session[c].started + 1)]
    /\ UNCHANGED <<storedDocs, storedKeys, cvars, now>>

\* await contract.setData(`protocol_${protocolId}`, ...)
setProtocolData(c, accepted) ==
    /\ session[c].pc = "setDoc"
    /\ IF accepted
       THEN /\ storedDocs' = storedDocs \cup {session[c].protocolId}
            /\ session' = [session EXCEPT ![c].pc = "getKeys"]
       ELSE /\ session' = [session EXCEPT ![c].pc = "idle", ![c].status = "error"]
            /\ UNCHANGED storedDocs
    /\ UNCHANGED <<storedKeys, cvars, now>>

\* await contract.getData("protocol_keys"); parse; keys.push(protocolId)
getProtocolKeys(c) ==
    /\ session[c].pc = "getKeys"
    /\ session' = [session EXCEPT
            ![c].pc = "setKeys",
            ![c].keys = Append(ParseKeys(storedKeys), session[c].protocolId)]
    /\ UNCHANGED <<storedDocs, storedKeys, cvars, now>>

\* await contract.setData("protocol_keys", ...); success message
setProtocolKeys(c, accepted) ==
    /\ session[c].pc = "setKeys"
    /\ IF accepted
       THEN /\ storedKeys' = Stringify(session[c].keys)
            /\ session' = [session EXCEPT
                    ![c].pc = "reload",
                    ![c].status = "success",
                    ![c].created = @ \cup {session[c].protocolId}]
       ELSE /\ session' = [session EXCEPT ![c].pc = "idle", ![c].status = "error"]
            /\ UNCHANGED storedKeys
    /\ UNCHANGED <<storedDocs, cvars, now>>

\* loadProtocols, at the end of submitProtocol or on refresh
loadProtocols(c) ==
    /\ session[c].pc \in {"reload", "idle"}
    /\ session' = [session EXCEPT
            ![c].pc = "idle",
            ![c].protocols = LoadedList(ParseKeys(storedKeys))]
    /\ UNCHANGED <<storedDocs, storedKeys, cvars, now>>

NextWeb ==
    \/ \E c \in Clients, isConnected \in BOOLEAN, hasSigner \in BOOLEAN :
          submitProtocol(c, isConnected, hasSigner)
    \/ \E c \in Clients, accepted \in BOOLEAN : setProtocolData(c, accepted)
    \/ \E c \in Clients : getProtocolKeys(c)
    \/ \E c \in Clients, accepted \in BOOLEAN : setProtocolKeys(c, accepted)
    \/ \E c \in Clients : loadProtocols(c)

SpecWeb == Init /\ [][NextWeb]_vars

----------------------------------------------------------------------------
(* Vocabulary of the properties *)

Issued(r) == r < counterRequest

\* A batch that is not open: an earlier batch, or the current one once closed.
IsClosed(b) == b < currentBatchId \/ (b = currentBatchId /\ ~batchOpen)

\* The flag identifier of request r's batch now, and when r was issued.
FlagNow(r) == ctsOf(decryptionContexts[r].batchId)
FlagAtRequest(r) == requestedHandles[r]

CompletedCount(r) ==
    Cardinality({i \in DOMAIN events :
                    events[i][1] = "DecryptionCompleted" /\ events[i][2] = r})

\* Sum of the plaintexts of the submissions of one kind accepted into batch b,
\* read off the event log.
RECURSIVE SumAccepted(_, _, _)
SumAccepted(kind, b, n) ==
    IF n = 0 THEN 0
    ELSE SumAccepted(kind, b, n - 1)
         + (IF events[n][1] = kind /\ events[n][3] = b
            THEN Decrypt(events[n][4]) ELSE 0)

AcceptedCount(kind, b) ==
    Cardinality({i \in DOMAIN events : events[i][1] = kind /\ events[i][3] = b})

BoolBit(p) == IF p THEN 1 ELSE 0

LastEvent == events[Len(events)]

\* The batch whose solvency was computed by the most recent state-changing
\* call (calculateSolvency or closeBatch), 0 if that call was another one.
JustComputed ==
    IF LastEvent[1] = "SolvencyCalculated" THEN LastEvent[2]
    ELSE IF LastEvent[1] = "BatchClosed" THEN LastEvent[2]
    ELSE 0

GuardsBeforeLifecyclePass(s) ==
    /\ onlyProvider(s) = OK
    /\ whenNotPaused = OK
    /\ respectCooldown(s, lastSubmissionTime) = OK

HasSubmitted(a) ==
    \E i \in DOMAIN events : events[i][1] \in SubmitEvents /\ events[i][2] = a

----------------------------------------------------------------------------
(* C1: replay protection.  For every request id at most one                 *)
(* DecryptionCompleted event is ever logged, the request is marked          *)
(* processed exactly when that event exists, and once it is processed every *)
(* myCallback call for it, whatever the payload and the proof, fails with   *)
(* ReplayAttempt.                                                           *)
C1_ReplayProtection ==
    \A r \in RequestIds :
        /\ CompletedCount(r) <= 1
        /\ decryptionContexts[r].processed <=> CompletedCount(r) = 1
        /\ decryptionContexts[r].processed =>
              \A c \in Payloads, k \in ProofKinds :
                  myCallbackErr(r, c, ProofOf(k, r, c)) = "ReplayAttempt"

\* A request has been finalized, so a second callback for it is a replay.
C1_Witness ==
    \E r \in RequestIds :
        /\ decryptionContexts[r].processed
        /\ CompletedCount(r) = 1
        /\ myCallbackErr(r, <<1>>, ProofOf("request", r, <<1>>)) = "ReplayAttempt"

(* C2: state binding.  While a request is pending and the flag identifier   *)
(* of its batch differs from the identifier the request was issued for,     *)
(* every myCallback call for it fails with StateMismatch, also with a proof *)
(* that is valid for the new identifier; and whenever a request is          *)
(* finalized, the flag identifier of its batch at that moment is the one    *)
(* the request was issued for.                                              *)
C2_StaleIsRejected ==
    \A r \in RequestIds :
        (Issued(r) /\ ~decryptionContexts[r].processed /\ FlagNow(r) # FlagAtRequest(r))
        => \A c \in Payloads, k \in ProofKinds :
               myCallbackErr(r, c, ProofOf(k, r, c)) = "StateMismatch"

C2_FinalizedOnSameFlag ==
    \A r \in RequestIds :
        (~decryptionContexts[r].processed /\ decryptionContexts'[r].processed)
        => (Issued(r) /\ FlagNow(r) = FlagAtRequest(r))

C2_StateBinding == []C2_StaleIsRejected /\ [][C2_FinalizedOnSameFlag]_vars

\* A pending request whose batch flag was recomputed to a new identifier.
C2_Witness ==
    \E r \in RequestIds :
        /\ Issued(r) /\ ~decryptionContexts[r].processed
        /\ FlagNow(r) # FlagAtRequest(r)
        /\ myCallbackErr(r, <<1>>, ProofOf("current", r, <<1>>)) = "StateMismatch"

(* C3: a submission is accepted only while its target batch is open: every  *)
(* submitCollateral or submitDebt call naming a closed batch is rejected    *)
(* and leaves the totals of that batch unchanged.                           *)
C3_SubmissionOnlyWhileOpen ==
    [][\A s \in Addrs, b \in BatchIds, e \in Inputs :
          (IsClosed(b) /\ (submitCollateral(s, b, e) \/ submitDebt(s, b, e)))
          => /\ submitCheck(s, b, e) # OK
             /\ totalEncryptedCollateral'[b] = totalEncryptedCollateral[b]
             /\ totalEncryptedDebt'[b] = totalEncryptedDebt[b]]_vars

(* C4: for every batch, the running collateral total decrypts to the sum    *)
(* (in euint32 arithmetic) of all collateral values accepted into it, and   *)
(* the running debt total to the sum of all accepted debt values; the sum   *)
(* is over the multiset of accepted values, so it does not depend on their  *)
(* order.                                                                   *)
C4_TotalsAreSums ==
    \A b \in 1 .. currentBatchId :
        /\ Decrypt(totalEncryptedCollateral[b])
              = SumAccepted("CollateralSubmitted", b, Len(events)) % EuintMod
        /\ Decrypt(totalEncryptedDebt[b])
              = SumAccepted("DebtSubmitted", b, Len(events)) % EuintMod

\* Two collateral submissions were accepted into the same batch.
C4_Witness ==
    \E b \in 1 .. currentBatchId :
        /\ AcceptedCount("CollateralSubmitted", b) = 2
        /\ Decrypt(totalEncryptedCollateral[b])
              = SumAccepted("CollateralSubmitted", b, Len(events)) % EuintMod
        /\ Decrypt(totalEncryptedCollateral[b]) # 0

(* C5: right after a successful solvency computation on a batch, by         *)
(* calculateSolvency or by closeBatch, the flag of that batch is the        *)
(* identifier carried by the SolvencyCalculated event and decrypts to       *)
(* (collateral total >= debt total) of the batch's totals.                  *)
C5_FlagIsComparison ==
    JustComputed # 0 =>
        LET b == JustComputed
            ev == IF LastEvent[1] = "BatchClosed"
                  THEN events[Len(events) - 1] ELSE LastEvent
        IN /\ ev[1] = "SolvencyCalculated" /\ ev[2] = b
           /\ ev[3] = toBytes32(isProtocolSolvent[b])
           /\ Decrypt(isProtocolSolvent[b])
                 = BoolBit(Decrypt(totalEncryptedCollateral[b])
                             >= Decrypt(totalEncryptedDebt[b]))

\* closeBatch has just computed the flag of a batch with totals (100, Complement).
C5_Witness ==
    /\ LastEvent[1] = "BatchClosed"
    /\ Decrypt(totalEncryptedCollateral[JustComputed]) = 100
    /\ Decrypt(totalEncryptedDebt[JustComputed]) = Complement
    /\ Decrypt(isProtocolSolvent[JustComputed]) = 1

(* C6: at most one batch is open.  An openBatch call made while a batch is  *)
(* open and a closeBatch call made while none is open fail, and such a call *)
(* leaves the whole state unchanged.                                        *)
C6_OpenCloseGuard ==
    [][\A s \in Addrs :
          /\ (batchOpen /\ openBatch(s)) => (openBatchErr(s) # OK /\ UNCHANGED vars)
          /\ (~batchOpen /\ closeBatch(s)) => (closeBatchErr(s) # OK /\ UNCHANGED vars)
      ]_vars

\* A batch is open and the owner's openBatch is refused for that reason.
C6_Witness ==
    /\ batchOpen /\ currentBatchId >= 1
    /\ openBatchErr(owner) = "InvalidBatchOperation"

(* C7: batch identifiers are dense and strictly increasing.  The            *)
(* BatchOpened and BatchClosed events of the log are, in order, opened 1,   *)
(* closed 1, opened 2, closed 2, ...; currentBatchId is the number of       *)
(* batches opened so far and batchOpen holds exactly when the last opened   *)
(* batch has not been closed: no batch id is skipped or reused and no       *)
(* closed batch is opened again.                                            *)
IsLifecycleEvent(e) == e[1] \in {"BatchOpened", "BatchClosed"}

C7_DenseBatchIds ==
    LET life == SelectSeq(events, IsLifecycleEvent) IN
    /\ \A i \in DOMAIN life :
          life[i] = IF i % 2 = 1 THEN <<"BatchOpened", (i + 1) \div 2>>
                    ELSE <<"BatchClosed", i \div 2>>
    /\ currentBatchId = (Len(life) + 1) \div 2
    /\ batchOpen <=> (Len(life) % 2 = 1)

\* Batch 2 was opened after batch 1 was closed.
C7_Witness == currentBatchId = 2 /\ batchOpen

(* C8: a submitCollateral or submitDebt call whose batch id is 0 or greater *)
(* than currentBatchId fails, for every caller and input; it fails with     *)
(* BatchClosedOrNonExistent whenever the caller passes the provider, pause  *)
(* and cooldown guards, which run first.                                    *)
C8_NonExistentBatchRejected ==
    \A s \in Addrs, b \in BatchIds, e \in Inputs :
        (b = 0 \/ b > currentBatchId) =>
            /\ submitCheck(s, b, e) # OK
            /\ GuardsBeforeLifecyclePass(s)
                  => submitCheck(s, b, e) = "BatchClosedOrNonExistent"

\* C8 as stated: the lifecycle error for every caller in every state.
C8_AlwaysLifecycleError ==
    \A s \in Addrs, b \in BatchIds, e \in Inputs :
        (b = 0 \/ b > currentBatchId) =>
            submitCheck(s, b, e) = "BatchClosedOrNonExistent"

\* A provider whose cooldown has elapsed names a batch beyond the counter.
C8_Witness ==
    /\ currentBatchId >= 1
    /\ GuardsBeforeLifecyclePass(owner)
    /\ submitCheck(owner, currentBatchId + 1, <<"in", 50>>) = "BatchClosedOrNonExistent"
    /\ submitCheck(owner, 0, <<"in", 50>>) = "BatchClosedOrNonExistent"

(* C9: submission cooldown.  For a provider whose last accepted submission  *)
(* was at time t1 and who submits again at time now, all other guards       *)
(* passing: if now - t1 is less than cooldownSeconds the call fails with    *)
(* CooldownActive, and if now - t1 exceeds cooldownSeconds it succeeds.     *)
C9_Cooldown ==
    \A s \in Addrs, b \in BatchIds, e \in Inputs :
        ( /\ HasSubmitted(s)
          /\ onlyProvider(s) = OK /\ whenNotPaused = OK
          /\ isValidBatch(b) /\ isInitialized(e) )
        => /\ (now - lastSubmissionTime[s] < cooldownSeconds)
                 => submitCheck(s, b, e) = "CooldownActive"
           /\ (now - lastSubmissionTime[s] > cooldownSeconds)
                 => submitCheck(s, b, e) = OK

\* The same statement where lastSubmissionTime + cooldownSeconds fits uint256:
\* outside that range the call reverts with the arithmetic panic instead.
C9_CooldownWithinRange ==
    \A s \in Addrs, b \in BatchIds, e \in Inputs :
        ( /\ HasSubmitted(s)
          /\ onlyProvider(s) = OK /\ whenNotPaused = OK
          /\ isValidBatch(b) /\ isInitialized(e) )
        => IF lastSubmissionTime[s] + cooldownSeconds > UintMax
           THEN submitCheck(s, b, e) = "Panic"
           ELSE /\ (now - lastSubmissionTime[s] < cooldownSeconds)
                      => submitCheck(s, b, e) = "CooldownActive"
                /\ (now - lastSubmissionTime[s] >= cooldownSeconds)
                      => submitCheck(s, b, e) = OK

(* C10: the current owner is a provider in every reachable state.           *)
C10_OwnerIsProvider == isProvider[owner]

(* C11: removeProvider called by the owner with the owner's own address is  *)
(* always a no-op: the call does not fail, it changes no variable and emits *)
(* no event, and the owner is a provider afterwards.                        *)
C11_RemoveOwnerIsNoOp ==
    /\ onlyOwner(owner) = OK
    /\ ENABLED removeProvider(owner, owner)
    /\ ~ ENABLED (removeProvider(owner, owner) /\ vars' # vars)
    /\ ~ ENABLED (removeProvider(owner, owner) /\ ~isProvider'[owner'])

\* The part of C11 that does not rest on the owner being a provider: the call
\* passes onlyOwner and leaves every variable, the event log included, as it was.
C11_RemoveOwnerChangesNothing ==
    /\ onlyOwner(owner) = OK
    /\ ENABLED removeProvider(owner, owner)
    /\ ~ ENABLED (removeProvider(owner, owner) /\ vars' # vars)

(* C12: while paused, every submitCollateral, submitDebt, openBatch,        *)
(* closeBatch and requestSolvencyDecryption call is rejected and changes    *)
(* nothing; and pause followed by unpause leaves every stored value other   *)
(* than the pause flag as it was (the log gains the Paused and Unpaused     *)
(* events), so that each of these calls has after unpause the outcome it    *)
(* had before pause.                                                        *)

\* Storage other than the pause flag and the event log.
LedgerVars ==
    <<owner, isProvider, lastSubmissionTime, lastDecryptionRequestTime,
      cooldownSeconds, currentBatchId, batchOpen, decryptionContexts,
      encryptedCollateralAmounts, encryptedDebtAmounts,
      totalEncryptedCollateral, totalEncryptedDebt, isProtocolSolvent,
      counterRequest, requestedHandles>>

\* The outcome of every call of the five operations in the current state.
PausableVerdicts ==
    [submit  |-> [s \in Addrs, b \in BatchIds, e \in Inputs |-> submitCheck(s, b, e)],
     open    |-> [s \in Addrs |-> openBatchErr(s)],
     close   |-> [s \in Addrs |-> closeBatchErr(s)],
     request |-> [s \in Addrs, b \in BatchIds |-> requestSolvencyDecryptionErr(s, b)]]

PausableCall ==
    \/ \E s \in Addrs, b \in BatchIds, e \in Inputs :
          submitCollateral(s, b, e) \/ submitDebt(s, b, e)
    \/ \E s \in Addrs : openBatch(s) \/ closeBatch(s)
    \/ \E s \in Addrs, b \in BatchIds : requestSolvencyDecryption(s, b)

C12_BlockedWhilePaused ==
    paused =>
        /\ \A s \in Addrs, b \in BatchIds, e \in Inputs :
              submitCheck(s, b, e) # OK
        /\ \A s \in Addrs : openBatchErr(s) # OK /\ closeBatchErr(s) # OK
        /\ \A s \in Addrs, b \in BatchIds :
              requestSolvencyDecryptionErr(s, b) # OK
        /\ ~ ENABLED (PausableCall /\ vars' # vars)

\* In a paused state: unpause gives back the ledger l, the log ev extended by
\* the two events, and the verdicts v.
C12_UnpauseRestores(l, ev, v) ==
    /\ ENABLED unpause(owner)
    /\ ~ ENABLED ( /\ unpause(owner)
                   /\ ~ ( /\ ~paused'
                          /\ LedgerVars' = l
                          /\ events' = ev \o << <<"Paused", owner>>, <<"Unpaused", owner>> >>
                          /\ PausableVerdicts' = v ) )

C12_PauseThenUnpause ==
    (~paused /\ Depth + 2 * PauseCost <= MaxDepth) =>
        \E l \in {LedgerVars}, ev \in {events}, v \in {PausableVerdicts} :
            /\ ENABLED pause(owner)
            /\ ~ ENABLED ( /\ pause(owner)
                           /\ ~ ( /\ paused'
                                  /\ LedgerVars' = l
                                  /\ C12_UnpauseRestores(l, ev, v)' ) )

C12_PauseBlocksUnpauseRestores ==
    C12_BlockedWhilePaused /\ C12_PauseThenUnpause

\* The owner paused and unpaused while batch 1 was open with a collateral
\* submission in it; closeBatch, refused while paused, is accepted again.
C12_Witness ==
    /\ Len(events) >= 3
    /\ events[Len(events) - 1][1] = "Paused"
    /\ LastEvent[1] = "Unpaused"
    /\ ~paused /\ batchOpen
    /\ AcceptedCount("CollateralSubmitted", currentBatchId) = 1
    /\ Decrypt(totalEncryptedCollateral[currentBatchId]) > 0
    /\ closeBatchErr(owner) = OK

(* C13: the reach of the pause flag.  While paused, every pause, openBatch, *)
(* closeBatch, submitCollateral, submitDebt, calculateSolvency and          *)
(* requestSolvencyDecryption call fails and changes nothing; the owner's    *)
(* transferOwnership, addProvider, removeProvider and setCooldownSeconds    *)
(* calls do not consult the flag and take effect while paused.              *)

\* The operations that carry whenNotPaused.
WhenNotPausedCall ==
    \/ PausableCall
    \/ \E s \in Addrs : pause(s)
    \/ \E s \in Addrs, b \in BatchIds : calculateSolvency(s, b)

\* The owner operations without whenNotPaused.
RoleOrCooldownCall ==
    \/ \E s \in Addrs, a \in Addrs :
          transferOwnership(s, a) \/ addProvider(s, a) \/ removeProvider(s, a)
    \/ \E s \in Addrs, c \in CooldownChoices : setCooldownSeconds(s, c)

C13_GuardedRejectedWhilePaused ==
    paused =>
        /\ \A s \in Addrs, b \in BatchIds, e \in Inputs :
              submitCheck(s, b, e) # OK
        /\ \A s \in Addrs :
              /\ openBatchErr(s) # OK
              /\ closeBatchErr(s) # OK
              /\ pauseErr(s) # OK
        /\ \A s \in Addrs, b \in BatchIds :
              /\ calculateSolvencyErr(s, b) # OK
              /\ requestSolvencyDecryptionErr(s, b) # OK
        /\ ~ ENABLED (WhenNotPausedCall /\ vars' # vars)

C13_OwnerCallsIgnorePause ==
    (paused /\ AdminRoom) =>
        /\ \A a \in Addrs :
              /\ ENABLED (transferOwnership(owner, a) /\ owner' = a)
              /\ ENABLED (addProvider(owner, a) /\ isProvider'[a])
              /\ a # owner => ENABLED (removeProvider(owner, a) /\ ~isProvider'[a])
        /\ \A c \in CooldownChoices :
              ENABLED (setCooldownSeconds(owner, c) /\ cooldownSeconds' = c)

C13_PauseReach == C13_GuardedRejectedWhilePaused /\ C13_OwnerCallsIgnorePause

\* C13 as stated: while paused no owner-gated or provider-gated call other
\* than unpause passes its checks or changes a variable.
C13_EmergencyStop ==
    paused =>
        /\ C13_GuardedRejectedWhilePaused
        /\ \A s \in Addrs : onlyOwner(s) # OK
        /\ ~ ENABLED (RoleOrCooldownCall /\ vars' # vars)

\* While paused with batch 1 open, the owner changed the cooldown; closeBatch
\* and calculateSolvency are refused because of the pause.
C13_Witness ==
    /\ paused /\ batchOpen
    /\ Len(events) >= 3
    /\ events[Len(events) - 1][1] = "Paused"
    /\ LastEvent[1] = "CooldownSecondsSet"
    /\ closeBatchErr(owner) = "PausedState"
    /\ isProvider[owner]
    /\ calculateSolvencyErr(owner, currentBatchId) = "PausedState"

(* C14: no partial application.  Every call either is accepted, and then    *)
(* commits its whole state change and appends its events, or fails with one *)
(* of the contract's named errors and leaves every variable, the event log  *)
(* included, exactly as it was.                                             *)

\* The errors declared by the contract.
NamedErrors ==
    {"NotOwner", "NotProvider", "PausedState", "CooldownActive",
     "BatchClosedOrNonExistent", "ReplayAttempt", "StateMismatch",
     "InvalidProof", "NotInitialized", "InvalidBatchOperation"}

\* The outcomes of all calls that can be made in the current state.
AllVerdicts ==
    {onlyOwner(s) : s \in Addrs}
    \cup {pauseErr(s) : s \in Addrs}
    \cup {openBatchErr(s) : s \in Addrs}
    \cup {closeBatchErr(s) : s \in Addrs}
    \cup {submitCheck(s, b, e) : s \in Addrs, b \in BatchIds, e \in Inputs}
    \cup {calculateSolvencyErr(s, b) : s \in Addrs, b \in BatchIds}
    \cup {requestSolvencyDecryptionErr(s, b) : s \in Addrs, b \in BatchIds}
    \cup {myCallbackErr(r, c, ProofOf(k, r, c)) :
             r \in RequestIds, c \in Payloads, k \in ProofKinds}

\* A call whose checks fail, as a step.
FailedCall ==
    \/ \E s \in Addrs :
          /\ onlyOwner(s) # OK
          /\ \/ \E a \in Addrs : \/ transferOwnership(s, a)
                                 \/ addProvider(s, a)
                                 \/ removeProvider(s, a)
             \/ \E c \in CooldownChoices : setCooldownSeconds(s, c)
             \/ unpause(s)
    \/ \E s \in Addrs :
          \/ pauseErr(s) # OK /\ pause(s)
          \/ openBatchErr(s) # OK /\ openBatch(s)
          \/ closeBatchErr(s) # OK /\ closeBatch(s)
    \/ \E s \in Addrs, b \in BatchIds, e \in Inputs :
          /\ submitCheck(s, b, e) # OK
          /\ submitCollateral(s, b, e) \/ submitDebt(s, b, e)
    \/ \E s \in Addrs, b \in BatchIds :
          \/ calculateSolvencyErr(s, b) # OK /\ calculateSolvency(s, b)
          \/ requestSolvencyDecryptionErr(s, b) # OK /\ requestSolvencyDecryption(s, b)
    \/ \E r \in RequestIds, c \in Payloads, k \in ProofKinds :
          /\ myCallbackErr(r, c, ProofOf(k, r, c)) # OK
          /\ myCallback(r, c, ProofOf(k, r, c))

\* A failed call changes no variable.
FailedCallsChangeNothing == FailedCall => UNCHANGED vars

C14_NoPartialApplication ==
    /\ [](AllVerdicts \subseteq NamedErrors \cup {OK})
    /\ [][FailedCallsChangeNothing]_vars

\* What holds of C14: a failed call changes nothing, and its failure is a
\* named error or the arithmetic panic of the checked uint256 addition.
C14_FailuresAreAtomic ==
    /\ [](AllVerdicts \subseteq NamedErrors \cup {OK, "Panic"})
    /\ [][FailedCallsChangeNothing]_vars

(* C15: a decryption request goes from Requested to Finalized and nowhere   *)
(* else.  No step resets processed, changes the batch id or the fingerprint *)
(* stored for an issued request, or removes the request; a request that is  *)
(* pending becomes processed only by a myCallback call for it that passes   *)
(* the replay, state, signature and length checks; a request id that was    *)
(* not issued holds no context and cannot be finalized.                     *)
C15_ContextsOfIssuedOnly ==
    \A r \in RequestIds :
        IF Issued(r)
        THEN /\ isValidBatch(decryptionContexts[r].batchId)
             /\ decryptionContexts[r].stateHash = hashCiphertexts(FlagAtRequest(r))
        ELSE decryptionContexts[r] = DefaultContext

C15_RequestedToFinalized ==
    \A r \in RequestIds :
        LET ctx == decryptionContexts[r] IN
        /\ Issued(r) =>
              /\ Issued(r)'
              /\ decryptionContexts'[r].batchId = ctx.batchId
              /\ decryptionContexts'[r].stateHash = ctx.stateHash
              /\ ctx.processed => decryptionContexts'[r].processed
        /\ (~ctx.processed /\ decryptionContexts'[r].processed) =>
              /\ Issued(r)
              /\ hashCiphertexts(ctsOf(ctx.batchId)) = ctx.stateHash
              /\ \E c \in Payloads, k \in ProofKinds :
                    /\ myCallback(r, c, ProofOf(k, r, c))
                    /\ checkSignatures(r, c, ProofOf(k, r, c))
                    /\ Len(c) = 1

C15_RequestLifecycle ==
    []C15_ContextsOfIssuedOnly /\ [][C15_RequestedToFinalized]_vars

\* Request 0 was finalized and request 1 was issued after it and is pending.
C15_Witness ==
    /\ Issued(0) /\ decryptionContexts[0].processed
    /\ Issued(1) /\ ~decryptionContexts[1].processed
    /\ CompletedCount(0) = 1

(* C16: access control fails closed.  In every reachable state a call of    *)
(* transferOwnership, addProvider, removeProvider, setCooldownSeconds,      *)
(* pause, unpause, openBatch or closeBatch by an address other than the     *)
(* current owner fails with NotOwner and changes nothing, and a call of     *)
(* submitCollateral, submitDebt, calculateSolvency or                       *)
(* requestSolvencyDecryption by an address that is not a provider fails     *)
(* with NotProvider and changes nothing; the step that transfers the        *)
(* ownership leaves the former owner with NotOwner.                         *)
OwnerCall(s) ==
    \/ \E a \in Addrs : transferOwnership(s, a) \/ addProvider(s, a) \/ removeProvider(s, a)
    \/ \E c \in CooldownChoices : setCooldownSeconds(s, c)
    \/ pause(s) \/ unpause(s) \/ openBatch(s) \/ closeBatch(s)

ProviderCall(s) ==
    \/ \E b \in BatchIds, e \in Inputs : submitCollateral(s, b, e) \/ submitDebt(s, b, e)
    \/ \E b \in BatchIds : calculateSolvency(s, b) \/ requestSolvencyDecryption(s, b)

OwnerVerdicts(s) ==
    {onlyOwner(s), pauseErr(s), openBatchErr(s), closeBatchErr(s)}

ProviderVerdicts(s) ==
    {submitCheck(s, b, e) : b \in BatchIds, e \in Inputs}
    \cup {calculateSolvencyErr(s, b) : b \in BatchIds}
    \cup {requestSolvencyDecryptionErr(s, b) : b \in BatchIds}

C16_FailsClosed ==
    \A s \in Addrs :
        /\ s # owner => OwnerVerdicts(s) = {"NotOwner"}
        /\ ~isProvider[s] => ProviderVerdicts(s) = {"NotProvider"}

C16_UnauthorizedChangesNothing ==
    \A s \in Addrs :
        ( \/ s # owner /\ OwnerCall(s)
          \/ ~isProvider[s] /\ ProviderCall(s) ) => UNCHANGED vars

C16_FormerOwnerLosesRights ==
    \A s \in Addrs :
        (s = owner /\ owner' # s) => OwnerVerdicts(s)' = {"NotOwner"}

C16_AccessControl ==
    /\ []C16_FailsClosed
    /\ [][C16_UnauthorizedChangesNothing /\ C16_FormerOwnerLosesRights]_vars

\* With batch 1 open the deployer handed the ownership to A2: the deployer's
\* openBatch is now refused with NotOwner, and A2, who is no provider, is
\* refused with NotProvider.
C16_Witness ==
    /\ owner = "A2" /\ ~isProvider["A2"] /\ batchOpen
    /\ LastEvent = <<"OwnershipTransferred", "A1", "A2">>
    /\ closeBatchErr("A1") = "NotOwner"
    /\ closeBatchErr("A2") = OK
    /\ submitCheck("A2", currentBatchId, <<"in", 50>>) = "NotProvider"

(* C17: the event log is append-only and complete.  Every step leaves the   *)
(* earlier events in place; a call whose checks fail appends nothing; and   *)
(* every step that changes a stored value appends the event that describes  *)
(* the change, with the values written.                                     *)
NewEvents == SubSeq(events', Len(events) + 1, Len(events'))

Appended(e) == \E i \in DOMAIN NewEvents : NewEvents[i] = e

C17_AppendOnly ==
    /\ Len(events') >= Len(events)
    /\ SubSeq(events', 1, Len(events)) = events

C17_ChangesAreLogged ==
    /\ cvars' # cvars => Len(events') > Len(events)
    /\ owner' # owner => Appended(<<"OwnershipTransferred", owner, owner'>>)
    /\ \A a \in Addrs :
          /\ (~isProvider[a] /\ isProvider'[a]) => Appended(<<"ProviderAdded", a>>)
          /\ (isProvider[a] /\ ~isProvider'[a]) => Appended(<<"ProviderRemoved", a>>)
          /\ lastSubmissionTime'[a] # lastSubmissionTime[a] =>
                \E b \in BatchIds, e \in Inputs :
                    \/ Appended(<<"CollateralSubmitted", a, b, toBytes32(e)>>)
                    \/ Appended(<<"DebtSubmitted", a, b, toBytes32(e)>>)
          /\ lastDecryptionRequestTime'[a] # lastDecryptionRequestTime[a] =>
                \E i \in DOMAIN NewEvents : NewEvents[i][1] = "DecryptionRequested"
    /\ cooldownSeconds' # cooldownSeconds =>
          Appended(<<"CooldownSecondsSet", cooldownSeconds, cooldownSeconds'>>)
    /\ (~paused /\ paused') => Appended(<<"Paused", owner>>)
    /\ (paused /\ ~paused') => Appended(<<"Unpaused", owner>>)
    /\ currentBatchId' # currentBatchId => Appended(<<"BatchOpened", currentBatchId'>>)
    /\ (~batchOpen /\ batchOpen') => Appended(<<"BatchOpened", currentBatchId'>>)
    /\ (batchOpen /\ ~batchOpen') => Appended(<<"BatchClosed", currentBatchId>>)
    /\ \A b \in BatchIds :
          /\ totalEncryptedCollateral'[b] # totalEncryptedCollateral[b] =>
                \/ Appended(<<"BatchOpened", b>>)
                \/ \E a \in Addrs :
                      Appended(<<"CollateralSubmitted", a, b,
                                 toBytes32(encryptedCollateralAmounts'[b][a])>>)
          /\ totalEncryptedDebt'[b] # totalEncryptedDebt[b] =>
                \/ Appended(<<"BatchOpened", b>>)
                \/ \E a \in Addrs :
                      Appended(<<"DebtSubmitted", a, b,
                                 toBytes32(encryptedDebtAmounts'[b][a])>>)
          /\ \A a \in Addrs :
                /\ encryptedCollateralAmounts'[b][a] # encryptedCollateralAmounts[b][a] =>
                      Appended(<<"CollateralSubmitted", a, b,
                                 toBytes32(encryptedCollateralAmounts'[b][a])>>)
                /\ encryptedDebtAmounts'[b][a] # encryptedDebtAmounts[b][a] =>
                      Appended(<<"DebtSubmitted", a, b,
                                 toBytes32(encryptedDebtAmounts'[b][a])>>)
          /\ isProtocolSolvent'[b] # isProtocolSolvent[b] =>
                \/ Appended(<<"BatchOpened", b>>)
                \/ Appended(<<"SolvencyCalculated", b, toBytes32(isProtocolSolvent'[b])>>)
    /\ \A r \in RequestIds :
          /\ decryptionContexts'[r] # decryptionContexts[r] =>
                \/ Appended(<<"DecryptionRequested", r, decryptionContexts'[r].batchId,
                              decryptionContexts'[r].stateHash>>)
                \/ \E v \in BOOLEAN :
                      Appended(<<"DecryptionCompleted", r, decryptionContexts[r].batchId, v>>)

C17_FailedCallsAppendNothing == FailedCall => events' = events

C17_EventLog ==
    [][C17_AppendOnly /\ C17_ChangesAreLogged /\ C17_FailedCallsAppendNothing]_vars

\* closeBatch appended SolvencyCalculated and BatchClosed behind the events of
\* the opening of batch 1 and of a collateral submission, which are still there.
C17_Witness ==
    /\ Len(events) = 5
    /\ events[1] = <<"ProviderAdded", Deployer>>
    /\ events[2] = <<"BatchOpened", 1>>
    /\ events[3][1] = "CollateralSubmitted"
    /\ events[4][1] = "SolvencyCalculated"
    /\ events[5] = <<"BatchClosed", 1>>

(* C18: resubmission within a batch.  The value stored for (batch,          *)
(* provider) is the one of the provider's latest accepted submission of     *)
(* that kind into the batch, while the running total holds the sum of all   *)
(* accepted submissions, earlier ones of the same provider included; so     *)
(* the total need not be the sum of the stored per-participant values.      *)

\* The log positions of the accepted submissions of a kind by a into b.
SubmissionsOf(kind, a, b) ==
    {i \in DOMAIN events :
        events[i][1] = kind /\ events[i][2] = a /\ events[i][3] = b}

Latest(S) == CHOOSE i \in S : \A j \in S : j <= i

\* The handle of the latest accepted submission, none if there is no submission.
LastSubmitted(kind, a, b) ==
    IF SubmissionsOf(kind, a, b) = {} THEN Uninit
    ELSE events[Latest(SubmissionsOf(kind, a, b))][4]

RECURSIVE SumStored(_, _, _)
SumStored(amounts, b, S) ==
    IF S = {} THEN 0
    ELSE LET a == CHOOSE x \in S : TRUE
         IN Decrypt(amounts[b][a]) + SumStored(amounts, b, S \ {a})

C18_LastWriteWinsTotalKeepsAll ==
    \A b \in BatchIds :
        /\ \A a \in Addrs :
              /\ toBytes32(encryptedCollateralAmounts[b][a])
                    = LastSubmitted("CollateralSubmitted", a, b)
              /\ toBytes32(encryptedDebtAmounts[b][a])
                    = LastSubmitted("DebtSubmitted", a, b)
        /\ Decrypt(totalEncryptedCollateral[b])
              = SumAccepted("CollateralSubmitted", b, Len(events)) % EuintMod
        /\ Decrypt(totalEncryptedDebt[b])
              = SumAccepted("DebtSubmitted", b, Len(events)) % EuintMod

\* A provider submitted collateral 50 and later Complement into the same batch:
\* Complement is stored for it, the total is their sum in euint32 arithmetic,
\* not the sum of the stored values.
C18_Witness ==
    \E a \in Addrs, b \in BatchIds :
        LET S == SubmissionsOf("CollateralSubmitted", a, b) IN
        /\ Cardinality(S) = 2
        /\ \E i, j \in S : i < j /\ Decrypt(events[i][4]) = 50
                                 /\ Decrypt(events[j][4]) = Complement
        /\ Decrypt(encryptedCollateralAmounts[b][a]) = Complement
        /\ Decrypt(totalEncryptedCollateral[b]) = (50 + Complement) % EuintMod
        /\ Decrypt(totalEncryptedCollateral[b])
              # SumStored(encryptedCollateralAmounts, b, Addrs) % EuintMod

(* C19: the solvency flag is a snapshot.  For every batch whose solvency    *)
(* was computed at least once, the flag is the identifier produced by the   *)
(* most recent computation for that batch and decrypts to (collateral total *)
(* >= debt total) of the totals as they were at that computation, whatever  *)
(* was submitted since; a batch never computed holds the flag written by    *)
(* openBatch.  A submitCollateral or submitDebt step changes no flag, and a *)
(* step that changes a flag is an openBatch, closeBatch or                  *)
(* calculateSolvency step.                                                  *)
ComputationsOf(b) ==
    {i \in DOMAIN events : events[i][1] = "SolvencyCalculated" /\ events[i][2] = b}

LiveComparison(b) ==
    BoolBit(Decrypt(totalEncryptedCollateral[b]) >= Decrypt(totalEncryptedDebt[b]))

\* The comparison of the totals of b as they were when event i was appended.
ComparisonAt(b, i) ==
    BoolBit(SumAccepted("CollateralSubmitted", b, i) % EuintMod
               >= SumAccepted("DebtSubmitted", b, i) % EuintMod)

C19_FlagIsLastComputation ==
    \A b \in BatchIds :
        IF ComputationsOf(b) # {}
        THEN LET i == Latest(ComputationsOf(b)) IN
             /\ toBytes32(isProtocolSolvent[b]) = events[i][3]
             /\ Decrypt(isProtocolSolvent[b]) = ComparisonAt(b, i)
        ELSE isProtocolSolvent[b]
                = IF isValidBatch(b) THEN asEbool(FALSE) ELSE Uninit

C19_FlagWriters ==
    \/ isProtocolSolvent' = isProtocolSolvent
    \/ /\ ~ \E s \in Addrs, b \in BatchIds, e \in Inputs :
               submitCollateral(s, b, e) \/ submitDebt(s, b, e)
       /\ \E s \in Addrs :
             \/ openBatch(s)
             \/ closeBatch(s)
             \/ \E b \in BatchIds : calculateSolvency(s, b)

C19_FlagIsSnapshot ==
    []C19_FlagIsLastComputation /\ [][C19_FlagWriters]_vars

\* The flag of a batch was computed as true and a debt submission accepted
\* afterwards has made the live comparison false: the flag still says true.
C19_Witness ==
    \E b \in BatchIds :
        /\ ComputationsOf(b) # {}
        /\ LastEvent[1] = "DebtSubmitted" /\ LastEvent[3] = b
        /\ Decrypt(isProtocolSolvent[b]) = 1
        /\ LiveComparison(b) = 0

(* C20: guard order.  A submitCollateral, submitDebt, calculateSolvency or  *)
(* requestSolvencyDecryption call that violates one or more of the guards   *)
(* authorization, pause, rate limit and lifecycle fails with the error of   *)
(* the first violated guard in that order: NotProvider, PausedState,        *)
(* CooldownActive, BatchClosedOrNonExistent.                                *)

\* The rate-limit guard is violated: the cooldown since the recorded time has
\* not elapsed.
WithinCooldown(s, cooldownMapping) ==
    now < cooldownMapping[s] + cooldownSeconds

ViolatesAGuard(s, b, cooldownMapping) ==
    \/ ~isProvider[s]
    \/ paused
    \/ WithinCooldown(s, cooldownMapping)
    \/ ~isValidBatch(b)

\* The error of the first violated guard, rateError being the one of the
\* rate-limit guard.
FirstViolated(s, b, cooldownMapping, rateError) ==
    IF ~isProvider[s] THEN "NotProvider"
    ELSE IF paused THEN "PausedState"
    ELSE IF WithinCooldown(s, cooldownMapping) THEN rateError
    ELSE "BatchClosedOrNonExistent"

C20_GuardOrder ==
    \A s \in Addrs, b \in BatchIds :
        /\ ViolatesAGuard(s, b, lastSubmissionTime) =>
              LET first == FirstViolated(s, b, lastSubmissionTime, "CooldownActive") IN
              /\ \A e \in Inputs : submitCheck(s, b, e) = first
              /\ calculateSolvencyErr(s, b) = first
        /\ ViolatesAGuard(s, b, lastDecryptionRequestTime) =>
              requestSolvencyDecryptionErr(s, b)
                 = FirstViolated(s, b, lastDecryptionRequestTime, "CooldownActive")

\* What holds of C20: the order is the stated one, and the rate-limit guard
\* reports the arithmetic panic instead of CooldownActive where the recorded
\* time plus cooldownSeconds exceeds uint256.
RateError(s, cooldownMapping) ==
    IF cooldownMapping[s] + cooldownSeconds > UintMax THEN "Panic"
    ELSE "CooldownActive"

C20_GuardOrderWithPanic ==
    \A s \in Addrs, b \in BatchIds :
        /\ ViolatesAGuard(s, b, lastSubmissionTime) =>
              LET first == FirstViolated(s, b, lastSubmissionTime,
                                         RateError(s, lastSubmissionTime)) IN
              /\ \A e \in Inputs : submitCheck(s, b, e) = first
              /\ calculateSolvencyErr(s, b) = first
        /\ ViolatesAGuard(s, b, lastDecryptionRequestTime) =>
              requestSolvencyDecryptionErr(s, b)
                 = FirstViolated(s, b, lastDecryptionRequestTime,
                                 RateError(s, lastDecryptionRequestTime))

(* C21: myCallback checks, in this order, the replay guard, the state       *)
(* binding, the proof and the payload length, and fails with the error of   *)
(* the first check that fails: ReplayAttempt, StateMismatch, InvalidProof,  *)
(* InvalidProof.  A payload that is not exactly one byte long is refused    *)
(* with InvalidProof also when its proof is valid.  A refused callback      *)
(* changes nothing: a pending request is still pending after it, and a      *)
(* valid callback for it is accepted afterwards.                            *)
ExpectedCallbackVerdict(r, c, p) ==
    IF decryptionContexts[r].processed THEN "ReplayAttempt"
    ELSE IF hashCiphertexts(FlagNow(r)) # decryptionContexts[r].stateHash
         THEN "StateMismatch"
    ELSE IF ~checkSignatures(r, c, p) THEN "InvalidProof"
    ELSE IF Len(c) # 1 THEN "InvalidProof"
    ELSE OK

\* A one-byte payload with the service's signature for the request.
ValidPayload == <<1>>
ValidProof(r, c) == ProofOf("request", r, c)

C21_FirstFailingCheck ==
    \A r \in RequestIds, c \in Payloads, k \in ProofKinds :
        myCallbackErr(r, c, ProofOf(k, r, c)) = ExpectedCallbackVerdict(r, c, ProofOf(k, r, c))

C21_BadLengthIsInvalidProof ==
    \A r \in RequestIds, c \in Payloads :
        ( /\ Issued(r) /\ ~decryptionContexts[r].processed
          /\ FlagNow(r) = FlagAtRequest(r)
          /\ Len(c) # 1 )
        => /\ checkSignatures(r, c, ValidProof(r, c))
           /\ myCallbackErr(r, c, ValidProof(r, c)) = "InvalidProof"

C21_RejectionKeepsPending ==
    \A r \in RequestIds, c \in Payloads, k \in ProofKinds :
        ( /\ Issued(r) /\ ~decryptionContexts[r].processed
          /\ myCallbackErr(r, c, ProofOf(k, r, c)) # OK )
        => /\ ENABLED myCallback(r, c, ProofOf(k, r, c))
           /\ ~ ENABLED ( /\ myCallback(r, c, ProofOf(k, r, c))
                          /\ \/ vars' # vars
                             \/ decryptionContexts'[r].processed
                             \/ myCallbackErr(r, ValidPayload, ValidProof(r, ValidPayload))'
                                   # myCallbackErr(r, ValidPayload, ValidProof(r, ValidPayload)) )

C21_CallbackChecks ==
    /\ C21_FirstFailingCheck
    /\ C21_BadLengthIsInvalidProof
    /\ C21_RejectionKeepsPending

\* A pending request with unchanged flag: a two-byte payload with a valid
\* proof is refused with InvalidProof, an unsigned one-byte payload likewise,
\* and the valid callback is accepted.
C21_Witness ==
    \E r \in RequestIds :
        /\ Issued(r) /\ ~decryptionContexts[r].processed
        /\ FlagNow(r) = FlagAtRequest(r)
        /\ checkSignatures(r, <<1, 0>>, ValidProof(r, <<1, 0>>))
        /\ myCallbackErr(r, <<1, 0>>, ValidProof(r, <<1, 0>>)) = "InvalidProof"
        /\ myCallbackErr(r, ValidPayload, BadProof) = "InvalidProof"
        /\ myCallbackErr(r, ValidPayload, ValidProof(r, ValidPayload)) = OK

(* C22: check and record.  Every successful submitCollateral, submitDebt,   *)
(* calculateSolvency and requestSolvencyDecryption call sets the caller's   *)
(* timestamp of the action's class (lastSubmissionTime for the first three, *)
(* lastDecryptionRequestTime for the last) to block.timestamp, so that the  *)
(* caller repeating an action of the class before that time plus            *)
(* cooldownSeconds is refused with CooldownActive.                          *)

\* After the step the caller is refused every action of the submission class
\* (resp. the decryption-request class) with the rate-limit error, as long as
\* the cooldown counted from the time of the step has not elapsed.
SubmissionClassLimited(s) ==
    (isProvider[s] /\ ~paused /\ now < now' + cooldownSeconds') =>
        /\ \A b \in BatchIds, e \in Inputs : submitCheck(s, b, e)' = "CooldownActive"
        /\ \A b \in BatchIds : calculateSolvencyErr(s, b)' = "CooldownActive"

RequestClassLimited(s) ==
    (isProvider[s] /\ ~paused /\ now < now' + cooldownSeconds') =>
        \A b \in BatchIds : requestSolvencyDecryptionErr(s, b)' = "CooldownActive"

C22_SubmissionsRecord ==
    \A s \in Addrs :
        (\E b \in BatchIds, e \in Inputs :
             submitCollateral(s, b, e) \/ submitDebt(s, b, e))
        => lastSubmissionTime'[s] = now

C22_RequestsRecord ==
    \A s \in Addrs :
        (\E b \in BatchIds : requestSolvencyDecryption(s, b))
        => lastDecryptionRequestTime'[s] = now

C22_ComputationsRecord ==
    \A s \in Addrs :
        (\E b \in BatchIds : calculateSolvency(s, b))
        => lastSubmissionTime'[s] = now

C22_CheckAndRecord ==
    [][ /\ C22_SubmissionsRecord /\ C22_RequestsRecord /\ C22_ComputationsRecord
        /\ \A s \in Addrs :
              /\ (\E b \in BatchIds, e \in Inputs :
                     submitCollateral(s, b, e) \/ submitDebt(s, b, e))
                 => SubmissionClassLimited(s)
              /\ (\E b \in BatchIds : calculateSolvency(s, b))
                 => SubmissionClassLimited(s)
              /\ (\E b \in BatchIds : requestSolvencyDecryption(s, b))
                 => RequestClassLimited(s)
      ]_vars

\* What holds of C22: submissions and decryption requests record the time of
\* the call; calculateSolvency is left out.
C22_RecordedBySubmissionsAndRequests ==
    [][C22_SubmissionsRecord /\ C22_RequestsRecord]_vars

(* C23: cooldown records are kept per address and per action class.  A      *)
(* successful submitCollateral or submitDebt by a writes a's                *)
(* lastSubmissionTime and no other record, a successful                     *)
(* requestSolvencyDecryption by a writes a's lastDecryptionRequestTime and  *)
(* no other record, and no other step changes a record.                     *)
C23_SubmissionWritesOwnRecord ==
    \A s \in Addrs :
        (\E b \in BatchIds, e \in Inputs :
             submitCollateral(s, b, e) \/ submitDebt(s, b, e))
        => /\ lastSubmissionTime' = [lastSubmissionTime EXCEPT ![s] = now]
           /\ lastDecryptionRequestTime' = lastDecryptionRequestTime

C23_RequestWritesOwnRecord ==
    \A s \in Addrs :
        (\E b \in BatchIds : requestSolvencyDecryption(s, b))
        => /\ lastDecryptionRequestTime' = [lastDecryptionRequestTime EXCEPT ![s] = now]
           /\ lastSubmissionTime' = lastSubmissionTime

C23_OnlyOwnActionsWrite ==
    \A a \in Addrs :
        /\ lastSubmissionTime'[a] # lastSubmissionTime[a] =>
              \E b \in BatchIds, e \in Inputs :
                  submitCollateral(a, b, e) \/ submitDebt(a, b, e)
        /\ lastDecryptionRequestTime'[a] # lastDecryptionRequestTime[a] =>
              \E b \in BatchIds : requestSolvencyDecryption(a, b)

C23_RecordsPerAddressAndClass ==
    [][ /\ C23_SubmissionWritesOwnRecord
        /\ C23_RequestWritesOwnRecord
        /\ C23_OnlyOwnActionsWrite ]_vars

\* A1 submitted at 60 and requested a decryption at 90, inside its submission
\* window: the two records of A1 differ and those of A2 are untouched.
C23_Witness ==
    /\ lastSubmissionTime = [a \in Addrs |-> IF a = "A1" THEN StartTime ELSE 0]
    /\ lastDecryptionRequestTime = [a \in Addrs |-> IF a = "A1" THEN StartTime + 30 ELSE 0]
    /\ now = StartTime + 30
    /\ cooldownSeconds = DefaultCooldown
    /\ LastEvent[1] = "DecryptionRequested"
    /\ WithinCooldown("A1", lastSubmissionTime)

(* C24: a cooldown change.  setCooldownSeconds writes no stored timestamp,  *)
(* and from the next state on every cooldown check compares                 *)
(* block.timestamp with the recorded time plus the new value.  The change   *)
(* therefore also applies to windows that were counted with the old value:  *)
(* a raised cooldown refuses an action whose window had elapsed under the   *)
(* old one.                                                                 *)
\* A successful setCooldownSeconds step.
CooldownChange ==
    /\ Len(events') = Len(events) + 1
    /\ \E s \in Addrs, c \in CooldownChoices : setCooldownSeconds(s, c)

\* The outcome of the rate-limit guard for a recorded time t and a cooldown c.
RateVerdict(t, c) ==
    IF t + c > UintMax THEN "Panic"
    ELSE IF now < t + c THEN "CooldownActive"
    ELSE OK

C24_RecordsUntouched ==
    CooldownChange =>
        UNCHANGED <<lastSubmissionTime, lastDecryptionRequestTime>>

C24_NewValueUsedAtOnce ==
    CooldownChange =>
        \A a \in Addrs :
            /\ respectCooldown(a, lastSubmissionTime)'
                  = RateVerdict(lastSubmissionTime[a], cooldownSeconds')
            /\ respectCooldown(a, lastDecryptionRequestTime)'
                  = RateVerdict(lastDecryptionRequestTime[a], cooldownSeconds')
            /\ (isProvider[a] /\ ~paused) =>
                  /\ \A b \in BatchIds, e \in Inputs :
                        (submitCheck(a, b, e)' \in {"CooldownActive", "Panic"})
                        <=> RateVerdict(lastSubmissionTime[a], cooldownSeconds') # OK
                  /\ \A b \in BatchIds :
                        (requestSolvencyDecryptionErr(a, b)' \in {"CooldownActive", "Panic"})
                        <=> RateVerdict(lastDecryptionRequestTime[a], cooldownSeconds') # OK

C24_PermittedStaysPermitted ==
    CooldownChange =>
        \A a \in Addrs :
            /\ respectCooldown(a, lastSubmissionTime) = OK
                  => respectCooldown(a, lastSubmissionTime)' = OK
            /\ respectCooldown(a, lastDecryptionRequestTime) = OK
                  => respectCooldown(a, lastDecryptionRequestTime)' = OK

CloseStep ==
    /\ Len(events') = Len(events) + 2
    /\ \E s \in Addrs : closeBatch(s)

C25_CloseEffect ==
    CloseStep =>
        LET b == currentBatchId IN
        /\ batchOpen /\ ~batchOpen' /\ currentBatchId' = b
        /\ totalEncryptedCollateral' = totalEncryptedCollateral
        /\ totalEncryptedDebt' = totalEncryptedDebt
        /\ Decrypt(isProtocolSolvent'[b]) = LiveComparison(b)
        /\ \A c \in BatchIds \ {b} : isProtocolSolvent'[c] = isProtocolSolvent[c]
        /\ events'[Len(events) + 1]
              = <<"SolvencyCalculated", b, toBytes32(isProtocolSolvent'[b])>>
        /\ events'[Len(events) + 2] = <<"BatchClosed", b>>

C25_ClosedOnlyByClose ==
    (batchOpen /\ ~batchOpen') => CloseStep

C25_RightAfterClose ==
    LastEvent[1] = "BatchClosed" =>
        LET b == LastEvent[2] IN
        /\ b = currentBatchId /\ ~batchOpen
        /\ events[Len(events) - 1]
              = <<"SolvencyCalculated", b, toBytes32(isProtocolSolvent[b])>>
        /\ Decrypt(isProtocolSolvent[b]) = LiveComparison(b)

C25_CloseBatch ==
    []C25_RightAfterClose /\ [][C25_CloseEffect /\ C25_ClosedOnlyByClose]_vars

\* Batch 1 was closed with collateral 50 and debt Complement: its flag says false.
C25_Witness ==
    /\ LastEvent = <<"BatchClosed", 1>>
    /\ ~batchOpen
    /\ Decrypt(totalEncryptedCollateral[1]) = 50
    /\ Decrypt(totalEncryptedDebt[1]) = Complement
    /\ Decrypt(isProtocolSolvent[1]) = 0
    /\ events[Len(events) - 1][1] = "SolvencyCalculated"

(* C26: a successful openBatch gives the new batch a collateral total and *)
(* a debt total that are the encoding of zero and a solvency flag that is *)
(* the encoding of false, and changes no total, no flag and no submission *)
(* of any earlier batch.                                                  *)

\* A successful openBatch step.
OpenStep ==
    /\ Len(events') = Len(events) + 1
    /\ currentBatchId' # currentBatchId
    /\ \E s \in Addrs : openBatch(s)

C26_OpenEffect ==
    OpenStep =>
        LET n == currentBatchId' IN
        /\ n = currentBatchId + 1
        /\ ~isInitialized(totalEncryptedCollateral[n])
        /\ totalEncryptedCollateral'[n] = <<"triv", 0>>
        /\ totalEncryptedDebt'[n] = <<"triv", 0>>
        /\ isProtocolSolvent'[n] = <<"trivb", 0>>
        /\ Decrypt(totalEncryptedCollateral'[n]) = 0
        /\ Decrypt(totalEncryptedDebt'[n]) = 0
        /\ Decrypt(isProtocolSolvent'[n]) = 0
        /\ \A b \in BatchIds \ {n} :
              /\ totalEncryptedCollateral'[b] = totalEncryptedCollateral[b]
              /\ totalEncryptedDebt'[b] = totalEncryptedDebt[b]
              /\ isProtocolSolvent'[b] = isProtocolSolvent[b]
        /\ encryptedCollateralAmounts' = encryptedCollateralAmounts
        /\ encryptedDebtAmounts' = encryptedDebtAmounts

C26_FreshBatch ==
    LastEvent[1] = "BatchOpened" =>
        LET n == LastEvent[2] IN
        /\ n = currentBatchId /\ batchOpen
        /\ totalEncryptedCollateral[n] = <<"triv", 0>>
        /\ totalEncryptedDebt[n] = <<"triv", 0>>
        /\ isProtocolSolvent[n] = <<"trivb", 0>>
        /\ \A a \in Addrs :
              /\ ~isInitialized(encryptedCollateralAmounts[n][a])
              /\ ~isInitialized(encryptedDebtAmounts[n][a])

C26_OpenBatchInitializes == []C26_FreshBatch /\ [][C26_OpenEffect]_vars

\* Batch 2 has just been opened while batch 1 holds collateral 100 and a true flag.
C26_Witness ==
    /\ LastEvent = <<"BatchOpened", 2>>
    /\ Decrypt(totalEncryptedCollateral[1]) = 100
    /\ Decrypt(isProtocolSolvent[1]) = 1
    /\ \E a \in Addrs : isInitialized(encryptedCollateralAmounts[1][a])
    /\ Decrypt(totalEncryptedCollateral[2]) = 0
    /\ Decrypt(totalEncryptedDebt[2]) = 0
    /\ Decrypt(isProtocolSolvent[2]) = 0

(* C27: addProvider and removeProvider are idempotent.  Called by the owner, *)
(* addProvider(a) for an existing provider and removeProvider(a) for a       *)
(* non-provider succeed, change no state and emit no event; and after any    *)
(* application of either operation a second application with the same        *)
(* arguments changes neither the state nor the event log.                    *)

\* addProvider(s, a) can change the state or the log.
AddChanges(s, a) == ENABLED (addProvider(s, a) /\ vars' # vars)
\* removeProvider(s, a) can change the state or the log.
RemoveChanges(s, a) == ENABLED (removeProvider(s, a) /\ vars' # vars)

C27_RepeatIsNoOp ==
    \A a \in Addrs :
        /\ isProvider[a] =>
              /\ onlyOwner(owner) = OK
              /\ ENABLED (addProvider(owner, a) /\ UNCHANGED vars)
              /\ ~AddChanges(owner, a)
        /\ ~isProvider[a] =>
              /\ onlyOwner(owner) = OK
              /\ ENABLED (removeProvider(owner, a) /\ UNCHANGED vars)
              /\ ~RemoveChanges(owner, a)

C27_TwiceIsOnce ==
    \A s \in Addrs, a \in Addrs :
        /\ ~ENABLED (addProvider(s, a) /\ AddChanges(s, a)')
        /\ ~ENABLED (removeProvider(s, a) /\ RemoveChanges(s, a)')

C27_Idempotent == C27_RepeatIsNoOp /\ C27_TwiceIsOnce

\* A2 was added and then removed; removing it again is a successful call
\* that changes nothing, and so is adding the owner, who is a provider.
C27_Witness ==
    /\ Len(events) >= 2
    /\ events[Len(events) - 1] = <<"ProviderAdded", "A2">>
    /\ LastEvent = <<"ProviderRemoved", "A2">>
    /\ ~isProvider["A2"] /\ isProvider[owner]
    /\ ENABLED (removeProvider(owner, "A2") /\ UNCHANGED vars)
    /\ ENABLED (addProvider(owner, owner) /\ UNCHANGED vars)

(* C28: pause called by the owner while the system is paused fails with    *)
(* PausedState and changes nothing; unpause called by the owner succeeds   *)
(* whether or not the system is paused, leaves paused = false, appends the *)
(* Unpaused event each time and changes nothing else.                      *)

\* What a successful unpause by s does to the state.
UnpauseEffect(s) ==
    /\ paused' = FALSE
    /\ events' = Append(events, <<"Unpaused", s>>)
    /\ UNCHANGED <<owner, isProvider, lastSubmissionTime,
                   lastDecryptionRequestTime, cooldownSeconds, currentBatchId,
                   batchOpen, decryptionContexts, encryptedCollateralAmounts,
                   encryptedDebtAmounts, totalEncryptedCollateral,
                   totalEncryptedDebt, isProtocolSolvent, counterRequest,
                   requestedHandles, now>>

C28_PauseWhilePausedFails ==
    paused =>
        /\ pauseErr(owner) = "PausedState"
        /\ ENABLED pause(owner)
        /\ ~ENABLED (pause(owner) /\ vars' # vars)

C28_UnpauseUnconditional ==
    /\ onlyOwner(owner) = OK
    /\ PauseRoom => ENABLED unpause(owner)
    /\ ~ENABLED (unpause(owner) /\ ~UnpauseEffect(owner))

C28_UnpauseStep ==
    (Len(events') = Len(events) + 1 /\ events'[Len(events')][1] = "Unpaused")
        => /\ \E s \in Addrs : s = owner /\ unpause(s) /\ UnpauseEffect(s)
           /\ ~paused'

C28_PauseUnpause ==
    [](C28_PauseWhilePausedFails /\ C28_UnpauseUnconditional)
        /\ [][C28_UnpauseStep]_vars

\* The owner unpaused twice while the system was not paused, then paused it:
\* a further pause is refused, a further unpause is accepted.
C28_Witness ==
    /\ Len(events) >= 4
    /\ events[Len(events) - 2][1] = "Unpaused"
    /\ events[Len(events) - 1][1] = "Unpaused"
    /\ LastEvent = <<"Paused", owner>>
    /\ paused
    /\ pauseErr(owner) = "PausedState"
    /\ ENABLED (unpause(owner) /\ ~paused')

(* C29: myCallback has no role, caller or pause guard.  For every pending   *)
(* request whose batch flag identifier is the one the request was issued    *)
(* for, a callback with a one-byte payload and a valid proof is accepted    *)
(* and finalizes the request, whoever is owner or provider, whether or not  *)
(* the system is paused, and whatever was submitted, opened or closed since *)
(* the request without changing that identifier.                            *)

\* Request r was issued and is not finalized.
Pending(r) == Issued(r) /\ ~decryptionContexts[r].processed

OneBytePayloads == {c \in Payloads : Len(c) = 1}

\* What the accepted callback for r with payload c does to the state.
FinalizeEffect(r, c) ==
    /\ decryptionContexts' = [decryptionContexts EXCEPT ![r].processed = TRUE]
    /\ events' = Append(events, <<"DecryptionCompleted", r,
                                  decryptionContexts[r].batchId, c[1] # 0>>)
    /\ UNCHANGED <<paused, isProvider, owner, isProtocolSolvent>>

C29_CallbackUnguarded ==
    \A r \in RequestIds, c \in OneBytePayloads :
        (Pending(r) /\ FlagNow(r) = FlagAtRequest(r)) =>
            /\ myCallbackErr(r, c, ValidProof(r, c)) = OK
            /\ Room => ENABLED myCallback(r, c, ValidProof(r, c))
            /\ ~ENABLED (myCallback(r, c, ValidProof(r, c)) /\ ~FinalizeEffect(r, c))

\* A request is pending on an unchanged flag while no address that could
\* have issued it is a provider any more.
C29_RequesterRemoved ==
    \E r \in RequestIds :
        /\ Pending(r) /\ FlagNow(r) = FlagAtRequest(r)
        /\ \A a \in Addrs : lastDecryptionRequestTime[a] > 0 => ~isProvider[a]

\* A request issued before the pause was finalized while the system was paused.
C29_Witness ==
    /\ paused
    /\ Len(events) >= 3
    /\ events[Len(events) - 2][1] = "DecryptionRequested"
    /\ events[Len(events) - 1][1] = "Paused"
    /\ LastEvent[1] = "DecryptionCompleted"
    /\ decryptionContexts[LastEvent[2]].processed

(* C30: in every reachable state every batch id in 1 .. currentBatchId has  *)
(* an initialised collateral total, debt total and solvency flag, so that   *)
(* calculateSolvency, closeBatch and requestSolvencyDecryption on a valid   *)
(* batch id never fail with NotInitialized.                                 *)

C30_ValidBatchesInitialized ==
    \A b \in BatchIds :
        isValidBatch(b) =>
            /\ isInitialized(totalEncryptedCollateral[b])
            /\ isInitialized(totalEncryptedDebt[b])
            /\ isInitialized(isProtocolSolvent[b])

C30_InitChecksPass ==
    \A b \in BatchIds :
        isValidBatch(b) =>
            /\ calculateSolvencyCheck(b) = OK
            /\ initIfNeeded(isProtocolSolvent[b]) = OK
            /\ \A s \in Addrs :
                  /\ calculateSolvencyErr(s, b) # "NotInitialized"
                  /\ requestSolvencyDecryptionErr(s, b) # "NotInitialized"

C30_CloseNeverNotInitialized ==
    \A s \in Addrs : closeBatchErr(s) # "NotInitialized"

C30_NoMissingCiphertext ==
    /\ C30_ValidBatchesInitialized
    /\ C30_InitChecksPass
    /\ C30_CloseNeverNotInitialized

\* Batch 1 was closed, batch 2 opened and a decryption of batch 2's flag was
\* requested: all three operations passed their initialisation checks.
C30_Witness ==
    /\ currentBatchId = 2
    /\ \E i \in DOMAIN events : events[i] = <<"BatchClosed", 1>>
    /\ LastEvent[1] = "DecryptionRequested"
    /\ LastEvent[3] = 2
    /\ \A b \in 1 .. 2 : calculateSolvencyCheck(b) = OK

(* C31: an address with no recorded action of a class is treated as having *)
(* last acted at time 0.  With every other guard passing, its first        *)
(* submission (first decryption request) is accepted if and only if        *)
(* now >= cooldownSeconds, and is otherwise rejected with CooldownActive.  *)

\* Address a has no record in the mapping: the mapping's default value.
NoRecord(cooldownMapping, a) == cooldownMapping[a] = 0

C31_FirstSubmission ==
    \A s \in Addrs, b \in BatchIds, e \in Inputs :
        ( /\ NoRecord(lastSubmissionTime, s)
          /\ onlyProvider(s) = OK /\ whenNotPaused = OK
          /\ isValidBatch(b) /\ isInitialized(e) )
        => /\ submitCheck(s, b, e) = (IF now >= cooldownSeconds THEN OK
                                      ELSE "CooldownActive")
           /\ (now >= cooldownSeconds /\ Room /\ SubmitRoom)
                 => /\ ENABLED (submitCollateral(s, b, e) /\ lastSubmissionTime'[s] = now)
                    /\ ENABLED (submitDebt(s, b, e) /\ lastSubmissionTime'[s] = now)
           /\ now < cooldownSeconds
                 => /\ ~ENABLED (submitCollateral(s, b, e) /\ vars' # vars)
                    /\ ~ENABLED (submitDebt(s, b, e) /\ vars' # vars)

C31_FirstRequest ==
    \A s \in Addrs, b \in BatchIds :
        ( /\ NoRecord(lastDecryptionRequestTime, s)
          /\ onlyProvider(s) = OK /\ whenNotPaused = OK
          /\ isValidBatch(b) /\ isInitialized(isProtocolSolvent[b]) )
        => /\ requestSolvencyDecryptionErr(s, b) = (IF now >= cooldownSeconds THEN OK
                                                    ELSE "CooldownActive")
           /\ (now >= cooldownSeconds /\ Room /\ counterRequest < MaxRequests)
                 => ENABLED (requestSolvencyDecryption(s, b)
                                /\ lastDecryptionRequestTime'[s] = now)
           /\ now < cooldownSeconds
                 => ~ENABLED (requestSolvencyDecryption(s, b) /\ vars' # vars)

\* Every record written is a time at which the action was accepted, and a
\* record is never reset to the default.
C31_RecordsAreTimes ==
    \A a \in Addrs :
        /\ lastSubmissionTime[a] # 0 => (HasSubmitted(a) /\ lastSubmissionTime[a] \in Times)
        /\ lastDecryptionRequestTime[a] # 0 => lastDecryptionRequestTime[a] \in Times

C31_FirstActionSinceZero ==
    C31_FirstSubmission /\ C31_FirstRequest /\ C31_RecordsAreTimes

\* The owner raised the cooldown to 90 at time 60; the owner's first
\* submission was accepted at time 90 exactly, and the first request, still
\* without a record, is accepted too.
C31_Witness ==
    /\ cooldownSeconds = DefaultCooldown + 30
    /\ now = cooldownSeconds
    /\ LastEvent[1] = "CollateralSubmitted"
    /\ CountEvents(SubmitEvents) = 1
    /\ lastSubmissionTime[LastEvent[2]] = now
    /\ NoRecord(lastDecryptionRequestTime, LastEvent[2])
    /\ requestSolvencyDecryptionErr(LastEvent[2], currentBatchId) = OK

\* An address without a record is refused: the cooldown exceeds the time.
C31_RefusedReach ==
    \E s \in Addrs :
        /\ NoRecord(lastSubmissionTime, s) /\ isProvider[s] /\ ~paused /\ batchOpen
        /\ now < cooldownSeconds
        /\ submitCheck(s, currentBatchId, <<"in", 50>>) = "CooldownActive"

(* C32: batch totals are euint32 values.  Every accepted submission is added *)
(* to its total modulo the width of the type, and the solvency computation   *)
(* compares the wrapped totals: the computed flag equals                     *)
(* (sum of accepted collateral mod width) >= (sum of accepted debt mod       *)
(* width), which can differ from the comparison of the unbounded sums.       *)

\* The unbounded sums of the submissions accepted into batch b.
CollateralSum(b) == SumAccepted("CollateralSubmitted", b, Len(events))
DebtSum(b) == SumAccepted("DebtSubmitted", b, Len(events))

\* A successful submitCollateral or submitDebt step.
SubmitStep ==
    /\ Len(events') = Len(events) + 1
    /\ events'[Len(events')][1] \in SubmitEvents

C32_AddedModuloWidth ==
    SubmitStep =>
        LET ev == events'[Len(events')]
            b == ev[3]
            v == Decrypt(ev[4])
        IN IF ev[1] = "CollateralSubmitted"
           THEN /\ Decrypt(totalEncryptedCollateral'[b])
                      = (Decrypt(totalEncryptedCollateral[b]) + v) % EuintMod
                /\ totalEncryptedDebt' = totalEncryptedDebt
           ELSE /\ Decrypt(totalEncryptedDebt'[b])
                      = (Decrypt(totalEncryptedDebt[b]) + v) % EuintMod
                /\ totalEncryptedCollateral' = totalEncryptedCollateral

C32_TotalsInRange ==
    \A b \in BatchIds :
        /\ Decrypt(totalEncryptedCollateral[b]) \in 0 .. (EuintMod - 1)
        /\ Decrypt(totalEncryptedDebt[b]) \in 0 .. (EuintMod - 1)
        /\ isValidBatch(b) =>
              /\ Decrypt(totalEncryptedCollateral[b]) = CollateralSum(b) % EuintMod
              /\ Decrypt(totalEncryptedDebt[b]) = DebtSum(b) % EuintMod

C32_FlagComparesWrapped ==
    JustComputed # 0 =>
        Decrypt(isProtocolSolvent[JustComputed])
            = BoolBit(CollateralSum(JustComputed) % EuintMod
                         >= DebtSum(JustComputed) % EuintMod)

C32_WrappedArithmetic ==
    [](C32_TotalsInRange /\ C32_FlagComparesWrapped) /\ [][C32_AddedModuloWidth]_vars

\* Debt 50 and Complement were accepted and no collateral: the debt total
\* wrapped to 0 and the computed flag says solvent, although the unbounded
\* debt exceeds the collateral.
C32_Witness ==
    /\ JustComputed # 0
    /\ CollateralSum(JustComputed) = 0
    /\ DebtSum(JustComputed) = EuintMod
    /\ Decrypt(totalEncryptedDebt[JustComputed]) = 0
    /\ Decrypt(isProtocolSolvent[JustComputed]) = 1
    /\ BoolBit(CollateralSum(JustComputed) >= DebtSum(JustComputed)) = 0

(* C33: a myCallback call for a request id that requestSolvencyDecryption   *)
(* never issued never succeeds.  In every reachable state the context of    *)
(* such an id is the default one (batch 0, empty fingerprint, unprocessed), *)
(* the call fails whatever payload and proof are supplied, marks nothing    *)
(* processed and emits no DecryptionCompleted event.                        *)

C33_UnissuedHasDefaultContext ==
    \A r \in RequestIds :
        ~Issued(r) =>
            /\ decryptionContexts[r] = DefaultContext
            /\ ~isInitialized(isProtocolSolvent[decryptionContexts[r].batchId])
            /\ hashCiphertexts(FlagNow(r)) # decryptionContexts[r].stateHash
            /\ CompletedCount(r) = 0

C33_UnissuedIsRefused ==
    \A r \in RequestIds, c \in Payloads, k \in ProofKinds :
        ~Issued(r) =>
            /\ myCallbackErr(r, c, ProofOf(k, r, c)) = "StateMismatch"
            /\ ~ENABLED (myCallback(r, c, ProofOf(k, r, c)) /\ vars' # vars)

C33_CompletedWereIssued ==
    \A i \in DOMAIN events :
        events[i][1] = "DecryptionCompleted" =>
            (Issued(events[i][2]) /\ decryptionContexts[events[i][2]].processed)

C33_UnissuedNeverFinalized ==
    /\ C33_UnissuedHasDefaultContext
    /\ C33_UnissuedIsRefused
    /\ C33_CompletedWereIssued

\* Request 0 was issued and finalized; a callback for the unissued id 1 that
\* carries a one-byte payload and the service's signature over the handles
\* the callback rebuilds is refused.
C33_Witness ==
    /\ counterRequest = 1
    /\ decryptionContexts[0].processed
    /\ LastEvent[1] = "DecryptionCompleted"
    /\ ~Issued(1)
    /\ myCallbackErr(1, ValidPayload, ProofOf("current", 1, ValidPayload)) = "StateMismatch"

(* C34: after any interleaving of two submitProtocol runs of two clients    *)
(* that both completed successfully, the list stored under "protocol_keys"  *)
(* contains both new protocol ids, so that every protocol document written  *)
(* is reachable by loadProtocols.                                           *)

\* The ids in the stored index.
IndexedIds == {ParseKeys(storedKeys)[i] : i \in DOMAIN ParseKeys(storedKeys)}

\* The ids of the runs that ended with the success message.
CreatedIds == UNION {session[c].created : c \in Clients}

C34_CreatedAreIndexed ==
    \A c, d \in Clients :
        c # d =>
            \A p \in session[c].created, q \in session[d].created :
                {p, q} \subseteq IndexedIds

\* Whatever the interleaving, every indexed id and every created id has its
\* document: the write that can be lost is the one to the index.
C34_IndexedHaveDocuments ==
    /\ IndexedIds \subseteq storedDocs
    /\ CreatedIds \subseteq storedDocs

\* Both clients completed a run and one of the two ids is missing from the
\* index: its document is stored but loadProtocols does not list it.
C34_LostUpdate ==
    \E c, d \in Clients :
        /\ c # d
        /\ \A x \in Clients : session[x].pc = "idle" /\ session[x].status = "success"
        /\ \E p \in session[c].created, q \in session[d].created :
              /\ p \in storedDocs /\ q \in IndexedIds
              /\ p \notin IndexedIds

====
